---- MODULE Spec2Model ----
(***************************************************************************)
(* Freeway segmentation and multi-criteria scoring engine                  *)
(* (AnalysisEngine of the analysis web worker, src/unnamed/part_000).      *)
(*                                                                         *)
(* The engine is fed a configuration and a dataset bundle by a 'start'     *)
(* message, generates segments, applies the eligibility gates in a fixed   *)
(* order, scores every eligible segment on the features of positive        *)
(* weight, computes the composite scores and posts a 'complete' event.     *)
(*                                                                         *)
(* Geometry (turf.js) is an external library: its results are inputs.      *)
(* Every dataset feature carries, per segment, the values the engine asks  *)
(* turf for: the distance to the segment centre (cdist), the distance to   *)
(* the segment footprint, 0 when the feature touches or lies inside it     *)
(* (bdist), and whether the feature contains the segment centre (inside).  *)
(* Distances are whole numbers of an abstract distance unit; scores are    *)
(* exact rationals (JavaScript doubles without their rounding).            *)
(***************************************************************************)
EXTENDS Integers, Sequences, FiniteSets, TLC

\* ---------------------------------------------------------------- bounds
MaxSegments == 2
MaxDist == 3
MaxFeatures == 2
MaxRouteLength == 10
MaxWorkers == 2
MaxAlerts == 2
MaxUnknown == 2
MaxFragments == 3
MaxPosition == 3

\* ------------------------------------------------------- program constants
Infinity == 1000000
maxStops == 80
maxCrashes == 2200
maxMiles == 5
maxADI == 100
defaultAgeThreshold == 80

\* ---------------------------------------------------------------- numbers
\* A JavaScript number is modelled as an exact rational [n, d], d > 0, in
\* lowest terms.  The arithmetic is defined by functions, so that an
\* operand is evaluated once, as the operand of a JavaScript operator is.
Gcd[a \in Nat, b \in Nat] == IF b = 0 THEN a ELSE Gcd[b, a % b]

GCD(a, b) == Gcd[a, b]

Abs(x) == IF x < 0 THEN -x ELSE x

Fraction[n \in Int, d \in Nat] ==
    [n |-> n \div GCD(Abs(n), d), d |-> d \div GCD(Abs(n), d)]

Rat(n, d) == Fraction[n, d]

Zero == Rat(0, 1)
One == Rat(1, 1)
Ten == Rat(10, 1)

Number == [n : Int, d : Nat]

\* the operands are brought to their least common denominator
Scale[a \in Number, b \in Number] == b.d \div GCD(a.d, b.d)

LessOrEqual[a \in Number, b \in Number] == a.n * Scale[a, b] <= b.n * Scale[b, a]
Less[a \in Number, b \in Number] == a.n * Scale[a, b] < b.n * Scale[b, a]
Sum[a \in Number, b \in Number] ==
    Rat(a.n * Scale[a, b] + b.n * Scale[b, a], a.d * Scale[a, b])
Difference[a \in Number, b \in Number] ==
    Rat(a.n * Scale[a, b] - b.n * Scale[b, a], a.d * Scale[a, b])
Product[a \in Number, b \in Number] == Rat(a.n * b.n, a.d * b.d)
\* a / b for b > 0
Quotient[a \in Number, b \in Number] == Rat(a.n * b.d, a.d * b.n)
Maximum[a \in Number, b \in Number] == IF LessOrEqual[a, b] THEN b ELSE a
Minimum[a \in Number, b \in Number] == IF LessOrEqual[a, b] THEN a ELSE b

RLe(a, b) == LessOrEqual[a, b]
RLt(a, b) == Less[a, b]
RAdd(a, b) == Sum[a, b]
RSub(a, b) == Difference[a, b]
RMul(a, b) == Product[a, b]
RDiv(a, b) == Quotient[a, b]
RMax(a, b) == Maximum[a, b]
RMin(a, b) == Minimum[a, b]

\* ------------------------------------------------------------ feature keys
\* the features of config.features, in the order scoreSegments scores them
FeatureOrder ==
    << "ctaStations", "metraStations", "amtrakStations", "parks",
       "publicSchools", "privateSchools", "colleges", "hospitals",
       "landmarks", "stadiums", "ssa", "tif", "medicalDistrict",
       "neighborhoodCenter", "bridges", "adi", "crashes",
       "transitDensity", "bikeNetwork" >>

FeatureKeys == { FeatureOrder[i] : i \in 1..Len(FeatureOrder) }

\* features scored by calculateProximityToPoints, with their dataset key
PointDataset ==
    [ ctaStations |-> "cta_rail_stations", metraStations |-> "metra_stations",
      amtrakStations |-> "amtrak_stations", publicSchools |-> "public_schools",
      privateSchools |-> "private_schools", colleges |-> "colleges_universities",
      hospitals |-> "hospitals", stadiums |-> "stadiums", bridges |-> "bridges" ]

\* features scored by calculateProximityToPolygons, with their dataset key
PolygonDataset ==
    [ parks |-> "parks", landmarks |-> "landmarks",
      ssa |-> "special_service_areas", tif |-> "tif_districts",
      medicalDistrict |-> "medical_district" ]

DatasetKeys ==
    { "freeways", "cta_rail_stations", "metra_stations", "amtrak_stations",
      "public_schools", "private_schools", "colleges_universities",
      "hospitals", "stadiums", "bridges", "parks", "landmarks",
      "special_service_areas", "tif_districts", "medical_district",
      "neighborhoods", "zoning_districts", "block_groups_with_census",
      "cta_bus_stops", "pace_bus_stops", "bike_routes" }

\* this.datasets.has(key) / this.datasets.get(key).features
Has(datasets, key) == datasets[key].present
Features(datasets, key) == datasets[key].features

\* ------------------------------------------------------- dataset features
\* An attribute value of a feature: absent (null / undefined), a number, or
\* a string that does not parse as a number.
None == [k |-> "none", v |-> 0]
Num(x) == [k |-> "num", v |-> x]
Str == [k |-> "str", v |-> 0]

\* a JavaScript falsy attribute value: undefined, null or the number 0
Falsy(a) == a.k = "none" \/ (a.k = "num" /\ a.v = 0)

\* A feature of a dataset.  cdist, bdist, edist and inside are indexed by
\* segment number.  edist is the distance to the footprint's boundary line
\* (positive also for a point inside the footprint).  zone_class is a
\* sequence of characters.  mi_ctrline and len are in tenths of a mile.
\* geometry tells which turf computations throw on the feature: none on a
\* "valid" one; those against the segment footprint or a search buffer
\* (booleanIntersects, booleanPointInPolygon of the feature, polygonToLine /
\* nearestPointOnLine) on a "degenerate" one, whose centroid, coordinates
\* and interior can still be computed with; all of them on an "invalid" one.
Feat(gtype, cdist, bdist) ==
    [ gtype |-> gtype, geometry |-> "valid",
      cdist |-> cdist, bdist |-> bdist, edist |-> bdist,
      inside |-> [s \in DOMAIN cdist |-> FALSE],
      pri_neigh |-> "", neighborhood |-> "", name |-> "", COMMUNITY |-> "",
      PRI_NEIGH |-> "", zone_class |-> << >>,
      age |-> None, adi |-> None, crash_count |-> None,
      mi_ctrline |-> None, len |-> 0 ]

\* --------------------------------------------------------- feature scorers
\* the distance of a Point feature: 0 inside the footprint, else to the
\* footprint's boundary; in the catch, from the segment centre
PointDistance(feature, s) ==
    IF feature.geometry = "valid" THEN feature.bdist[s] ELSE feature.cdist[s]

\* getNearestPointDistance: the loop over dataset.features
RECURSIVE NearestPointLoop(_, _, _, _)
NearestPointLoop(feats, i, s, nearestDistance) ==
    IF i > Len(feats) THEN nearestDistance
    ELSE IF feats[i].gtype # "Point"
         THEN NearestPointLoop(feats, i + 1, s, nearestDistance)
         ELSE LET distance == PointDistance(feats[i], s)
              IN  NearestPointLoop(feats, i + 1, s,
                     IF distance < nearestDistance THEN distance
                                                   ELSE nearestDistance)

getNearestPointDistance(s, datasets, datasetKey) ==
    IF ~Has(datasets, datasetKey) THEN Infinity
    ELSE NearestPointLoop(Features(datasets, datasetKey), 1, s, Infinity)

\* variant: the decay is not cut off at the radius
LinearDecayUnclamped(nearestDistance, radius) ==
    IF nearestDistance = Infinity THEN Zero
    ELSE RMul(RSub(One, Rat(nearestDistance, radius)), Ten)

\* Linear decay: max(0, 1 - distance/radius) * 10
LinearDecay(nearestDistance, radius) ==
    IF nearestDistance = Infinity THEN Zero
    ELSE RMul(RMax(Zero, RSub(One, Rat(nearestDistance, radius))), Ten)

calculateProximityToPoints(s, datasets, datasetKey, radiusMiles) ==
    LinearDecay(getNearestPointDistance(s, datasets, datasetKey), radiusMiles)

\* getNearestPolygonDistance: the loop over dataset.features
RECURSIVE NearestPolygonLoop(_, _, _, _)
NearestPolygonLoop(feats, i, s, nearestDistance) ==
    IF i > Len(feats) THEN nearestDistance
    ELSE LET f == feats[i]
         IN  IF f.gtype \in {"Polygon", "MultiPolygon", "Point"}
             THEN LET distance ==
                        IF f.geometry # "valid" THEN f.cdist[s]
                        ELSE IF f.gtype = "Point" THEN f.edist[s] ELSE f.bdist[s]
                  IN  NearestPolygonLoop(feats, i + 1, s,
                         IF distance < nearestDistance THEN distance
                                                       ELSE nearestDistance)
             ELSE NearestPolygonLoop(feats, i + 1, s, nearestDistance)

getNearestPolygonDistance(s, datasets, datasetKey) ==
    IF ~Has(datasets, datasetKey) THEN Infinity
    ELSE NearestPolygonLoop(Features(datasets, datasetKey), 1, s, Infinity)

calculateProximityToPolygons(s, datasets, datasetKey, radiusMiles) ==
    LinearDecay(getNearestPolygonDistance(s, datasets, datasetKey), radiusMiles)

\* scoreProximityToNeighborhoodCenter: distance to the nearest centroid
RECURSIVE NearestCentroidLoop(_, _, _, _)
NearestCentroidLoop(feats, i, s, nearestDistance) ==
    IF i > Len(feats) THEN nearestDistance
    ELSE IF feats[i].geometry = "invalid"
         THEN NearestCentroidLoop(feats, i + 1, s, nearestDistance)
    ELSE LET distance == feats[i].cdist[s]
         IN  NearestCentroidLoop(feats, i + 1, s,
                IF distance < nearestDistance THEN distance
                                              ELSE nearestDistance)

scoreProximityToNeighborhoodCenter(s, config, datasets) ==
    IF ~Has(datasets, "neighborhoods") THEN Zero
    ELSE LinearDecay(
            NearestCentroidLoop(Features(datasets, "neighborhoods"), 1, s, Infinity),
            config.features["neighborhoodCenter"].radius)

\* findContainingBlockGroup: index of the first block group containing the
\* segment centre, 0 for null
RECURSIVE FirstContaining(_, _, _)
FirstContaining(feats, i, s) ==
    IF i > Len(feats) THEN 0
    ELSE IF feats[i].inside[s] THEN i
    ELSE FirstContaining(feats, i + 1, s)

findContainingBlockGroup(s, datasets) ==
    IF ~Has(datasets, "block_groups_with_census") THEN 0
    ELSE FirstContaining(Features(datasets, "block_groups_with_census"), 1, s)

\* direction || fallback
DirectionOr(direction, fallback) == IF direction = "" THEN fallback ELSE direction

scoreADIOfBlockGroup(s, config, datasets) ==
    LET bg == findContainingBlockGroup(s, datasets)
    IN  IF bg = 0 THEN Zero
        ELSE LET adi == Features(datasets, "block_groups_with_census")[bg].adi
             IN  IF Falsy(adi) \/ adi.k = "str" THEN Zero
                 ELSE LET scaled == RMul(Rat(adi.v, maxADI), Ten)
                      IN  IF DirectionOr(config.features["adi"].direction, "higher") = "higher"
                          THEN RMin(Ten, scaled)
                          ELSE RMax(Zero, RSub(Ten, scaled))

scoreCrashFrequency(s, config, datasets) ==
    LET bg == findContainingBlockGroup(s, datasets)
    IN  IF bg = 0 THEN Zero
        ELSE LET cc == Features(datasets, "block_groups_with_census")[bg].crash_count
             IN  IF Falsy(cc) \/ cc.k = "str" THEN Zero
                 ELSE LET normalizedCrashes == RMin(One, Rat(cc.v, maxCrashes))
                      IN  IF DirectionOr(config.features["crashes"].direction, "lower") = "lower"
                          THEN RMax(Zero, RSub(Ten, RMul(normalizedCrashes, Ten)))
                          ELSE RMul(normalizedCrashes, Ten)

\* calculateDensityInRadius with metric 'count': the features that intersect
\* the circular buffer of the radius around the segment centre
RECURSIVE CountInRadius(_, _, _, _)
CountInRadius(feats, i, s, radius) ==
    IF i > Len(feats) THEN 0
    ELSE (IF feats[i].geometry = "valid" /\ feats[i].cdist[s] <= radius THEN 1 ELSE 0)
         + CountInRadius(feats, i + 1, s, radius)

calculateDensityInRadius(s, datasets, datasetKey, radiusMiles) ==
    IF ~Has(datasets, datasetKey) THEN 0
    ELSE CountInRadius(Features(datasets, datasetKey), 1, s, radiusMiles)

\* Math.max(0, Math.min(10, score))
Clamp(score) == RMax(Zero, RMin(Ten, score))

\* the scorer without the floor of one stop under direction 'lower'
scoreTransitStopDensityUnfloored(s, config, datasets) ==
    LET radiusMiles == config.features["transitDensity"].radius
        totalStops ==
            calculateDensityInRadius(s, datasets, "cta_bus_stops", radiusMiles)
          + calculateDensityInRadius(s, datasets, "pace_bus_stops", radiusMiles)
        normalizedStops == RMin(One, Rat(totalStops, maxStops))
    IN  IF DirectionOr(config.features["transitDensity"].direction, "higher") = "lower"
        THEN Clamp(RMul(RSub(One, normalizedStops), Ten))
        ELSE Clamp(RMul(normalizedStops, Ten))

scoreTransitStopDensity(s, config, datasets) ==
    LET radiusMiles == config.features["transitDensity"].radius
        totalStops ==
            (IF Has(datasets, "cta_bus_stops")
             THEN calculateDensityInRadius(s, datasets, "cta_bus_stops", radiusMiles)
             ELSE 0)
          + (IF Has(datasets, "pace_bus_stops")
             THEN calculateDensityInRadius(s, datasets, "pace_bus_stops", radiusMiles)
             ELSE 0)
        normalizedStops == RMin(One, Rat(totalStops, maxStops))
        adjustedStops == IF totalStops < 1 THEN 1 ELSE totalStops
        adjustedNormalized == RMin(One, Rat(adjustedStops, maxStops))
        score ==
            IF DirectionOr(config.features["transitDensity"].direction, "higher") = "lower"
            THEN RMul(RSub(One, adjustedNormalized), Ten)
            ELSE RMul(normalizedStops, Ten)
    IN  Clamp(score)

\* scoreBikeNetworkConnectivity: total mileage in tenths of a mile, or NaN
\* ([nan |-> TRUE]) when a mi_ctrline string does not parse
RECURSIVE BikeMilesLoop(_, _, _, _)
BikeMilesLoop(feats, i, s, radius) ==
    IF i > Len(feats) THEN [nan |-> FALSE, tenths |-> 0]
    ELSE LET rest == BikeMilesLoop(feats, i + 1, s, radius)
             f == feats[i]
         IN  IF f.geometry = "valid" /\ f.cdist[s] <= radius
             THEN IF Falsy(f.mi_ctrline)
                  THEN [nan |-> rest.nan, tenths |-> rest.tenths + f.len]
                  ELSE IF f.mi_ctrline.k = "str"
                  THEN [nan |-> TRUE, tenths |-> rest.tenths]
                  ELSE [nan |-> rest.nan, tenths |-> rest.tenths + f.mi_ctrline.v]
             ELSE rest

scoreBikeNetworkConnectivity(s, config, datasets) ==
    LET radiusMiles == config.features["bikeNetwork"].radius
        total == IF Has(datasets, "bike_routes")
                 THEN BikeMilesLoop(Features(datasets, "bike_routes"), 1, s, radiusMiles)
                 ELSE [nan |-> FALSE, tenths |-> 0]
        totalMiles == Rat(total.tenths, 10)
        normalizedMiles == RMin(One, RDiv(totalMiles, Rat(maxMiles, 1)))
        adjustedMiles == RMax(Rat(1, 10), totalMiles)
        adjustedNormalized == RMin(One, RDiv(adjustedMiles, Rat(maxMiles, 1)))
        score ==
            IF DirectionOr(config.features["bikeNetwork"].direction, "higher") = "lower"
            THEN RMul(RSub(One, adjustedNormalized), Ten)
            ELSE RMul(normalizedMiles, Ten)
    IN  IF total.nan THEN Zero ELSE Clamp(score)

\* the scorer scoreSegments calls for a feature key
ScoreFeature(key, s, config, datasets) ==
    IF key \in DOMAIN PointDataset
    THEN calculateProximityToPoints(s, datasets, PointDataset[key],
                                    config.features[key].radius)
    ELSE IF key \in DOMAIN PolygonDataset
    THEN calculateProximityToPolygons(s, datasets, PolygonDataset[key],
                                      config.features[key].radius)
    ELSE IF key = "neighborhoodCenter"
    THEN scoreProximityToNeighborhoodCenter(s, config, datasets)
    ELSE IF key = "adi" THEN scoreADIOfBlockGroup(s, config, datasets)
    ELSE IF key = "crashes" THEN scoreCrashFrequency(s, config, datasets)
    ELSE IF key = "transitDensity" THEN scoreTransitStopDensity(s, config, datasets)
    ELSE scoreBikeNetworkConnectivity(s, config, datasets)

\* the body of the scoreSegments loop for one segment: a score is written
\* for every feature of positive weight
\* variant: a score is written for every feature, whatever its weight
ScoredKeysAnyWeight(config) == FeatureKeys

ScoredKeys(config) == { k \in FeatureKeys : config.features[k].weight > 0 }

SegmentScores(s, config, datasets) ==
    [ k \in ScoredKeys(config) |-> ScoreFeature(k, s, config, datasets) ]

\* ------------------------------------------------------------------ gates
\* A segment is [id, eligible, scores]; segment number s is segments[s].
\* Every gate maps the segment list to the segment list it leaves behind.

\* segment.eligible = false
Exclude(seg) == [seg EXCEPT !.eligible = FALSE]

\* the Point features of a dataset, in order
RECURSIVE PointsOf(_, _)
PointsOf(feats, i) ==
    IF i > Len(feats) THEN << >>
    ELSE (IF feats[i].gtype = "Point" THEN << feats[i] >> ELSE << >>)
         \o PointsOf(feats, i + 1)

\* minimum distance from the segment centre to any station
RECURSIVE MinCenterDistance(_, _, _, _)
MinCenterDistance(stations, i, s, minDistance) ==
    IF i > Len(stations) THEN minDistance
    ELSE LET distance == stations[i].cdist[s]
         IN  MinCenterDistance(stations, i + 1, s,
                IF distance < minDistance THEN distance ELSE minDistance)

StationKeys == << "cta_rail_stations", "metra_stations", "amtrak_stations" >>

\* variant: the gate writes the flag of every segment, eligible or not
applyStationProximityGateOverwrite(segments, config, datasets) ==
    LET maxDistanceMiles == config.requirements.stationProximity.distance
        present == { i \in 1..3 : Has(datasets, StationKeys[i]) }
        stationsOf(i) == IF i \in present
                         THEN PointsOf(Features(datasets, StationKeys[i]), 1)
                         ELSE << >>
        allStations == stationsOf(1) \o stationsOf(2) \o stationsOf(3)
    IN  IF present = {} THEN segments
        ELSE [ s \in DOMAIN segments |->
                 [ segments[s] EXCEPT !.eligible =
                     ~(MinCenterDistance(allStations, 1, s, Infinity) > maxDistanceMiles) ] ]

applyStationProximityGate(segments, config, datasets) ==
    LET maxDistanceMiles == config.requirements.stationProximity.distance
        present == { i \in 1..3 : Has(datasets, StationKeys[i]) }
        stationsOf(i) == IF i \in present
                         THEN PointsOf(Features(datasets, StationKeys[i]), 1)
                         ELSE << >>
        allStations == stationsOf(1) \o stationsOf(2) \o stationsOf(3)
    IN  IF present = {} THEN segments
        ELSE [ s \in DOMAIN segments |->
                 IF ~segments[s].eligible THEN segments[s]
                 ELSE IF MinCenterDistance(allStations, 1, s, Infinity) > maxDistanceMiles
                      THEN Exclude(segments[s])
                      ELSE segments[s] ]

\* segmentIntersectsPolygon: turf.booleanIntersects(segment.geometry, polygon);
\* in the catch, whether the polygon contains the segment centre
segmentIntersectsPolygon(s, polygon) ==
    IF polygon.geometry = "valid" THEN polygon.bdist[s] = 0 ELSE polygon.inside[s]

\* applyPolygonIntersectionFilter: a segment stays when polygonTest holds of
\* it and some feature of the dataset; polygonTest is given as the function
\* from << segment, feature number >> to the value of the callback
applyPolygonIntersectionFilter(segments, datasets, datasetKey, polygonTest) ==
    IF ~Has(datasets, datasetKey) THEN segments
    ELSE [ s \in DOMAIN segments |->
             IF ~segments[s].eligible THEN segments[s]
             ELSE IF \E i \in 1..Len(Features(datasets, datasetKey)) : polygonTest[s, i]
                  THEN segments[s]
                  ELSE Exclude(segments[s]) ]

\* the callback (segment, polygon) => this.segmentIntersectsPolygon(segment, polygon)
IntersectsTest(segments, datasets, datasetKey) ==
    [ s \in DOMAIN segments, i \in 1..Len(Features(datasets, datasetKey)) |->
        segmentIntersectsPolygon(s, Features(datasets, datasetKey)[i]) ]

\* pri_neigh || neighborhood || name || COMMUNITY || PRI_NEIGH || ''
NeighborhoodName(f) ==
    IF f.pri_neigh # "" THEN f.pri_neigh
    ELSE IF f.neighborhood # "" THEN f.neighborhood
    ELSE IF f.name # "" THEN f.name
    ELSE IF f.COMMUNITY # "" THEN f.COMMUNITY
    ELSE f.PRI_NEIGH

\* variant: a missing neighborhoods dataset is read as one without features
applyNeighborhoodFiltersUnchecked(segments, config, datasets) ==
    LET selectedNeighborhoods == config.requirements.neighborhoods.selected
        feats == Features(datasets, "neighborhoods")
    IN  IF selectedNeighborhoods = {} THEN segments
        ELSE [ s \in DOMAIN segments |->
                 IF ~segments[s].eligible THEN segments[s]
                 ELSE IF \E i \in 1..Len(feats) :
                            /\ NeighborhoodName(feats[i]) \in selectedNeighborhoods
                            /\ segmentIntersectsPolygon(s, feats[i])
                      THEN segments[s]
                      ELSE Exclude(segments[s]) ]

applyNeighborhoodFilters(segments, config, datasets) ==
    LET selectedNeighborhoods == config.requirements.neighborhoods.selected
        neighborhoods == Features(datasets, "neighborhoods")
        test == [ s \in DOMAIN segments, i \in 1..Len(neighborhoods) |->
                    /\ NeighborhoodName(neighborhoods[i]) \in selectedNeighborhoods
                    /\ segmentIntersectsPolygon(s, neighborhoods[i]) ]
    IN  IF selectedNeighborhoods = {} THEN segments
        ELSE applyPolygonIntersectionFilter(segments, datasets, "neighborhoods", test)

\* categorizeZoning: the regular expressions are matched against the code as
\* given (the upper-cased copy is computed and never used)
categorizeZoning(zoneClass) ==
    LET starts(c, second) ==
            Len(zoneClass) >= 2 /\ zoneClass[1] = c /\ zoneClass[2] \in second
    IN  IF zoneClass = << >> THEN "other"
        ELSE IF starts("R", {"S", "M", "T"}) THEN "residential"
        ELSE IF starts("B", {"1", "2", "3"}) THEN "business"
        ELSE IF starts("C", {"1", "2", "3"}) THEN "commercial"
        ELSE IF starts("D", {"C", "R", "S", "X"}) THEN "downtown"
        ELSE IF starts("M", {"1", "2", "3"}) THEN "industrial"
        ELSE IF starts("P", {"M", "D"}) THEN "planned"
        ELSE "other"

\* variant: a zoning polygon passes whatever its category
applyZoningAllowlistAnyCategory(segments, config, datasets) ==
    LET allowedCategories == config.requirements.zoning.allowed
    IN  IF allowedCategories = {}
        THEN [ s \in DOMAIN segments |-> Exclude(segments[s]) ]
        ELSE applyPolygonIntersectionFilter(segments, datasets, "zoning_districts",
                IntersectsTest(segments, datasets, "zoning_districts"))

applyZoningAllowlist(segments, config, datasets) ==
    LET allowedCategories == config.requirements.zoning.allowed
        zoning == Features(datasets, "zoning_districts")
        test == [ s \in DOMAIN segments, i \in 1..Len(zoning) |->
                    /\ categorizeZoning(zoning[i].zone_class) \in allowedCategories
                    /\ segmentIntersectsPolygon(s, zoning[i]) ]
    IN  IF allowedCategories = {}
        THEN [ s \in DOMAIN segments |-> Exclude(segments[s]) ]
        ELSE applyPolygonIntersectionFilter(segments, datasets, "zoning_districts", test)

applySSAFilter(segments, datasets) ==
    applyPolygonIntersectionFilter(segments, datasets, "special_service_areas",
        IntersectsTest(segments, datasets, "special_service_areas"))

applyTIFFilter(segments, datasets) ==
    applyPolygonIntersectionFilter(segments, datasets, "tif_districts",
        IntersectsTest(segments, datasets, "tif_districts"))

\* applyBridgeConditionGate: the loop that finds the age of the nearest
\* bridge of known age; the result is [age, known]
RECURSIVE NearestBridgeAge(_, _, _, _, _)
NearestBridgeAge(bridges, i, s, shortestDistance, nearestBridgeAge) ==
    IF i > Len(bridges) THEN nearestBridgeAge
    ELSE LET bridge == bridges[i]
         IN  IF bridge.gtype # "Point" \/ bridge.age.k # "num"
             THEN NearestBridgeAge(bridges, i + 1, s, shortestDistance, nearestBridgeAge)
             ELSE IF PointDistance(bridge, s) < shortestDistance
                  THEN NearestBridgeAge(bridges, i + 1, s, PointDistance(bridge, s), bridge.age)
                  ELSE NearestBridgeAge(bridges, i + 1, s, shortestDistance, nearestBridgeAge)

\* variant: the gate writes the flag of every segment, eligible or not
applyBridgeConditionGateOverwrite(segments, config, datasets) ==
    LET configured == config.requirements.bridgeAge.threshold
        ageThreshold == IF configured = 0 THEN defaultAgeThreshold ELSE configured
    IN  IF ~Has(datasets, "bridges") THEN segments
        ELSE [ s \in DOMAIN segments |->
                 LET nearestBridgeAge ==
                         NearestBridgeAge(Features(datasets, "bridges"), 1, s, Infinity, None)
                 IN  [ segments[s] EXCEPT !.eligible =
                         ~(nearestBridgeAge.k = "num" /\ nearestBridgeAge.v > ageThreshold) ] ]

applyBridgeConditionGate(segments, config, datasets) ==
    LET configured == config.requirements.bridgeAge.threshold
        ageThreshold == IF configured = 0 THEN defaultAgeThreshold ELSE configured
    IN  IF ~Has(datasets, "bridges") THEN segments
        ELSE [ s \in DOMAIN segments |->
                 IF ~segments[s].eligible THEN segments[s]
                 ELSE IF getNearestPointDistance(s, datasets, "bridges") = Infinity
                      THEN segments[s]
                      ELSE LET nearestBridgeAge ==
                                   NearestBridgeAge(Features(datasets, "bridges"),
                                                    1, s, Infinity, None)
                           IN  IF nearestBridgeAge.k = "num" /\ nearestBridgeAge.v > ageThreshold
                               THEN Exclude(segments[s])
                               ELSE segments[s] ]

\* the gates of applyRequirements, in the order it applies them
GateOrder == << "stationProximity", "neighborhoods", "zoning", "ssa", "tif", "bridgeAge" >>

GateNames == { GateOrder[i] : i \in 1..Len(GateOrder) }

\* one gate of applyRequirements: applied when enabled, skipped otherwise
ApplyGate(gate, segments, config, datasets) ==
    IF ~config.requirements[gate].enabled THEN segments
    ELSE IF gate = "stationProximity" THEN applyStationProximityGate(segments, config, datasets)
    ELSE IF gate = "neighborhoods" THEN applyNeighborhoodFilters(segments, config, datasets)
    ELSE IF gate = "zoning" THEN applyZoningAllowlist(segments, config, datasets)
    ELSE IF gate = "ssa" THEN applySSAFilter(segments, datasets)
    ELSE IF gate = "tif" THEN applyTIFFilter(segments, datasets)
    ELSE applyBridgeConditionGate(segments, config, datasets)

\* the gates named by a sequence, applied one after another
RECURSIVE ApplyGates(_, _, _, _)
ApplyGates(order, segments, config, datasets) ==
    IF order = << >> THEN segments
    ELSE ApplyGates(Tail(order), ApplyGate(Head(order), segments, config, datasets),
                    config, datasets)

applyRequirements(segments, config, datasets) ==
    ApplyGates(GateOrder, segments, config, datasets)

\* ------------------------------------------------------------ exceptions
\* The computations that throw out of their function, and so out of
\* runAnalysis' try block.

\* getNearestPointDistance: the catch computes turf.point(coordinates) and
\* turf.distance outside any try
PointDistanceThrows(datasets, datasetKey) ==
    /\ Has(datasets, datasetKey)
    /\ \E i \in 1..Len(Features(datasets, datasetKey)) :
          /\ Features(datasets, datasetKey)[i].gtype = "Point"
          /\ Features(datasets, datasetKey)[i].geometry = "invalid"

\* getNearestPolygonDistance: the catches compute turf.centroid and
\* turf.distance outside any try
PolygonDistanceThrows(datasets, datasetKey) ==
    /\ Has(datasets, datasetKey)
    /\ \E i \in 1..Len(Features(datasets, datasetKey)) :
          /\ Features(datasets, datasetKey)[i].gtype \in {"Polygon", "MultiPolygon", "Point"}
          /\ Features(datasets, datasetKey)[i].geometry = "invalid"

\* findContainingBlockGroup: turf.booleanPointInPolygon is called outside
\* any try, on every block group up to the first that contains the centre
BlockGroupThrows(s, datasets) ==
    /\ Has(datasets, "block_groups_with_census")
    /\ LET blockGroups == Features(datasets, "block_groups_with_census")
       IN  \E i \in 1..Len(blockGroups) :
              /\ blockGroups[i].geometry = "invalid"
              /\ \A j \in 1..(i - 1) : ~blockGroups[j].inside[s]

\* the scorer of a feature key throws on segment s
ScorerThrows(key, s, datasets) ==
    IF key \in DOMAIN PointDataset THEN PointDistanceThrows(datasets, PointDataset[key])
    ELSE IF key \in DOMAIN PolygonDataset
    THEN PolygonDistanceThrows(datasets, PolygonDataset[key])
    ELSE IF key \in {"adi", "crashes"} THEN BlockGroupThrows(s, datasets)
    ELSE FALSE

\* the body of the scoreSegments loop throws on segment s
ScoringThrows(s, config, datasets) ==
    \E key \in ScoredKeys(config) : ScorerThrows(key, s, datasets)

\* applyPolygonIntersectionFilter: the catch of segmentIntersectsPolygon
\* calls turf.booleanPointInPolygon outside any try; relevant are the
\* features for which the callback reaches segmentIntersectsPolygon, and
\* the loop over the features stops at the first that passes
FilterThrows(segments, feats, relevant) ==
    \E s \in DOMAIN segments : \E i \in relevant :
        /\ segments[s].eligible
        /\ feats[i].geometry = "invalid"
        /\ \A j \in relevant : j < i => ~segmentIntersectsPolygon(s, feats[j])

\* a gate of applyRequirements throws
GateThrows(gate, segments, config, datasets) ==
    /\ config.requirements[gate].enabled
    /\ \E s \in DOMAIN segments : segments[s].eligible
    /\ CASE gate = "stationProximity" ->
               \E k \in 1..3 :
                   /\ Has(datasets, StationKeys[k])
                   /\ \E i \in 1..Len(Features(datasets, StationKeys[k])) :
                         /\ Features(datasets, StationKeys[k])[i].gtype = "Point"
                         /\ Features(datasets, StationKeys[k])[i].geometry = "invalid"
         [] gate = "neighborhoods" ->
               /\ config.requirements.neighborhoods.selected # {}
               /\ Has(datasets, "neighborhoods")
               /\ LET feats == Features(datasets, "neighborhoods")
                  IN  FilterThrows(segments, feats,
                         { i \in 1..Len(feats) :
                             NeighborhoodName(feats[i]) \in
                                 config.requirements.neighborhoods.selected })
         [] gate = "zoning" ->
               /\ config.requirements.zoning.allowed # {}
               /\ Has(datasets, "zoning_districts")
               /\ LET feats == Features(datasets, "zoning_districts")
                  IN  FilterThrows(segments, feats,
                         { i \in 1..Len(feats) :
                             categorizeZoning(feats[i].zone_class) \in
                                 config.requirements.zoning.allowed })
         [] gate = "ssa" ->
               /\ Has(datasets, "special_service_areas")
               /\ FilterThrows(segments, Features(datasets, "special_service_areas"),
                               1..Len(Features(datasets, "special_service_areas")))
         [] gate = "tif" ->
               /\ Has(datasets, "tif_districts")
               /\ FilterThrows(segments, Features(datasets, "tif_districts"),
                               1..Len(Features(datasets, "tif_districts")))
         [] OTHER -> PointDistanceThrows(datasets, "bridges")

\* ------------------------------------------------- composite score, ranks
\* the weighted sum and the weight sum over the scores present, feature by
\* feature in the order of calculateFinalScores
RECURSIVE WeightedSum(_, _, _)
WeightedSum(scores, config, i) ==
    IF i > Len(FeatureOrder) THEN Zero
    ELSE LET k == FeatureOrder[i]
         IN  IF k \in DOMAIN scores
             THEN RAdd(RMul(scores[k], Rat(config.features[k].weight, 1)),
                       WeightedSum(scores, config, i + 1))
             ELSE WeightedSum(scores, config, i + 1)

RECURSIVE TotalWeight(_, _, _)
TotalWeight(scores, config, i) ==
    IF i > Len(FeatureOrder) THEN 0
    ELSE LET k == FeatureOrder[i]
         IN  (IF k \in DOMAIN scores THEN config.features[k].weight ELSE 0)
             + TotalWeight(scores, config, i + 1)

\* the weighted sum times 10, not divided by the weight sum
FinalScoreUndivided(scores, config) ==
    RMul(WeightedSum(scores, config, 1), Ten)

\* finalScore = totalWeight > 0 ? (weightedSum / totalWeight) * 10 : 0
FinalScore(scores, config) ==
    LET totalWeight == TotalWeight(scores, config, 1)
    IN  IF totalWeight > 0
        THEN RMul(RDiv(WeightedSum(scores, config, 1), Rat(totalWeight, 1)), Ten)
        ELSE Zero

\* this.segments.filter(s => s.eligible), as segment numbers in order
RECURSIVE EligibleFrom(_, _)
EligibleFrom(segments, i) ==
    IF i > Len(segments) THEN << >>
    ELSE (IF segments[i].eligible THEN << i >> ELSE << >>)
         \o EligibleFrom(segments, i + 1)

\* every segment, eligible or not
EverySegment(segments) == [ i \in 1..Len(segments) |-> i ]

EligibleSegments(segments) == EligibleFrom(segments, 1)

\* a sort that puts results of equal score in reverse order
SortPositionTiesReversed(results, j) ==
    1 + Cardinality({ k \in DOMAIN results :
                        \/ RLt(results[j].score, results[k].score)
                        \/ (results[k].score = results[j].score /\ k > j) })

\* results.sort((a, b) => b.score - a.score) is a stable sort, highest
\* score first: result j comes after the results of higher score and after
\* the earlier results of equal score
SortPosition(results, j) ==
    1 + Cardinality({ k \in DOMAIN results :
                        \/ RLt(results[j].score, results[k].score)
                        \/ (results[k].score = results[j].score /\ k < j) })

SortByScore(results) ==
    [ p \in DOMAIN results |->
        results[CHOOSE j \in DOMAIN results : SortPosition(results, j) = p] ]

\* the results array is built once, then sorted in place, then ranked
calculateFinalScores(segments, config) ==
    LET eligible == EligibleSegments(segments)
        unsorted == [ j \in 1..Len(eligible) |->
                        [ id |-> segments[eligible[j]].id,
                          score |-> FinalScore(segments[eligible[j]].scores, config),
                          featureScores |-> segments[eligible[j]].scores ] ]
        Ranked(sorted) ==
            [ j \in 1..Len(sorted) |->
                [ id |-> sorted[j].id, score |-> sorted[j].score,
                  featureScores |-> sorted[j].featureScores, rank |-> j ] ]
    IN  CHOOSE ranked \in { Ranked(array) :
                            array \in { SortByScore(built) : built \in { unsorted } } } : TRUE

\* -------------------------------------------------------------- segmenter
\* The freeway geometry.  A freeway feature is a LineString on one great
\* circle; a coordinate p is the point p * 100 ft along the circle, and a
\* route may turn back on it, as a bend taken to its limit.  On a great
\* circle turf.length, turf.along and turf.distance are arc lengths.  CLASS
\* is an attribute value, corridor_id a string ("" when absent) and
\* STREET_NAM the sequence of the words of the street name.
FT_TO_KM == Rat(381, 1250000)
\* the literal 3280.84
FeetPerKm == Rat(82021, 25)

LineString(corridor, coordinates) ==
    [ gtype |-> "LineString", CLASS |-> Num(1), corridor_id |-> corridor,
      STREET_NAM |-> << >>, coordinates |-> coordinates ]

\* streetName.includes(word)
Includes(streetName, word) == \E i \in DOMAIN streetName : streetName[i] = word

getFreewayName(streetName) ==
    IF Includes(streetName, "KENNEDY") THEN "I-90/94"
    ELSE IF Includes(streetName, "EISENHOWER") THEN "I-290"
    ELSE IF Includes(streetName, "STEVENSON") THEN "I-55"
    ELSE IF Includes(streetName, "DAN RYAN") THEN "I-90/94-Dan-Ryan"
    ELSE IF Includes(streetName, "BISHOP FORD") \/ Includes(streetName, "I57") THEN "I-57"
    ELSE "Unknown"

\* props.corridor_id || this.getFreewayName(props.STREET_NAM) || 'Unknown'
Corridor(f) == IF f.corridor_id # "" THEN f.corridor_id ELSE getFreewayName(f.STREET_NAM)

\* the grouping loop without the test of CLASS
GroupedOfAnyClass(f, selectedFreeways) ==
    /\ f.gtype = "LineString"
    /\ selectedFreeways = {} \/ Corridor(f) \in selectedFreeways

\* the feature passes the tests of the grouping loop: a LineString, whose
\* CLASS is falsy or reads '1', of a selected corridor when any is selected
Grouped(f, selectedFreeways) ==
    /\ f.gtype = "LineString"
    /\ Falsy(f.CLASS) \/ f.CLASS = Num(1)
    /\ selectedFreeways = {} \/ Corridor(f) \in selectedFreeways

\* groups.get(corridor).push(f), a new group going last
PushToGroup(groups, corridor, f) ==
    IF \E g \in DOMAIN groups : groups[g].corridor = corridor
    THEN [ g \in DOMAIN groups |->
             IF groups[g].corridor = corridor
             THEN [ groups[g] EXCEPT !.features = Append(@, f) ]
             ELSE groups[g] ]
    ELSE Append(groups, [ corridor |-> corridor, features |-> << f >> ])

\* the groups of the features from number i on, in the order of the Map
RECURSIVE GroupLoop(_, _, _, _)
GroupLoop(features, i, selectedFreeways, groups) ==
    IF i > Len(features) THEN groups
    ELSE IF ~Grouped(features[i], selectedFreeways)
    THEN GroupLoop(features, i + 1, selectedFreeways, groups)
    ELSE GroupLoop(features, i + 1, selectedFreeways,
                   PushToGroup(groups, Corridor(features[i]), features[i]))

\* the value of a local constant: the element of a set of one element
The(S) == CHOOSE x \in S : TRUE

\* two positions are connected when their Manhattan distance is below the
\* tolerance of 0.0001 degrees (about 36 ft): positions that differ lie at
\* least 100 ft apart
Connected(p, q) == p = q

Reverse(coords) == [ i \in DOMAIN coords |-> coords[Len(coords) + 1 - i] ]
Front(coords) == SubSeq(coords, 1, Len(coords) - 1)
Last(coords) == coords[Len(coords)]

\* the line connects to the end of the route, or to either end of it
ConnectsToEnd(route, coords) ==
    Connected(Last(route), coords[1]) \/ Connected(Last(route), Last(coords))
Connects(route, coords) ==
    \/ ConnectsToEnd(route, coords)
    \/ Connected(route[1], coords[1])
    \/ Connected(route[1], Last(coords))

\* the route with a connecting line joined to it: endToStart, endToEnd,
\* startToStart, startToEnd, the first that applies
Connect(route, coords) ==
    IF Connected(Last(route), coords[1]) THEN route \o Tail(coords)
    ELSE IF Connected(Last(route), Last(coords)) THEN route \o Tail(Reverse(coords))
    ELSE IF Connected(route[1], coords[1]) THEN Front(Reverse(coords)) \o route
    ELSE Front(coords) \o route

\* the while loop of stitchLineStrings on st = [coordinates, fragments,
\* used]: the first unused line that connects is joined and marked used,
\* until none connects.  fragments lists the numbers of the lines the
\* route is made of, along the route.
RECURSIVE ExtendRoute(_, _)
ExtendRoute(lines, st) ==
    LET J == { j \in (DOMAIN lines) \ st.used : Connects(st.coordinates, lines[j]) }
    IN  IF J = {} THEN st
        ELSE The({ ExtendRoute(lines,
                       [ coordinates |-> Connect(st.coordinates, lines[j]),
                         fragments |-> IF ConnectsToEnd(st.coordinates, lines[j])
                                       THEN Append(st.fragments, j)
                                       ELSE << j >> \o st.fragments,
                         used |-> st.used \cup { j } ]) :
                   j \in { CHOOSE j \in J : \A k \in J : j <= k } })

\* the for loop of stitchLineStrings that does not skip the used lines
RECURSIVE StitchLoopFromEveryLine(_, _, _)
StitchLoopFromEveryLine(lines, i, used) ==
    IF i > Len(lines) THEN << >>
    ELSE The({ << [ coordinates |-> st.coordinates, fragments |-> st.fragments ] >>
                 \o StitchLoopFromEveryLine(lines, i + 1, st.used) :
               st \in { ExtendRoute(lines, [ coordinates |-> lines[i],
                                             fragments |-> << i >>,
                                             used |-> used \cup { i } ]) } })

\* the for loop of stitchLineStrings from line i on: every line not yet
\* used starts a route
RECURSIVE StitchLoop(_, _, _)
StitchLoop(lines, i, used) ==
    IF i > Len(lines) THEN << >>
    ELSE IF i \in used THEN StitchLoop(lines, i + 1, used)
    ELSE The({ << [ coordinates |-> st.coordinates, fragments |-> st.fragments ] >>
                 \o StitchLoop(lines, i + 1, st.used) :
               st \in { ExtendRoute(lines, [ coordinates |-> lines[i],
                                             fragments |-> << i >>,
                                             used |-> used \cup { i } ]) } })

\* stitchLineStrings: the routes of the features of one corridor
stitchLineStrings(features) ==
    StitchLoop([ i \in DOMAIN features |-> features[i].coordinates ], 1, {})

\* the route of a feature, its vertices in km along the great circle
Route(feature) ==
    [ i \in DOMAIN feature.coordinates |->
        RMul(Rat(100 * feature.coordinates[i], 1), FT_TO_KM) ]

\* turf.distance of two points
Distance(p, q) == IF RLe(p, q) THEN RSub(q, p) ELSE RSub(p, q)

\* turf.length
RECURSIVE LengthFrom(_, _)
LengthFrom(route, i) ==
    IF i >= Len(route) THEN Zero
    ELSE RAdd(Distance(route[i], route[i + 1]), LengthFrom(route, i + 1))
Length(route) == LengthFrom(route, 1)

\* turf.along: the point at the distance dist along the route from its
\* vertex i; the last vertex when the route is shorter
RECURSIVE AlongFrom(_, _, _)
AlongFrom(route, i, dist) ==
    IF i >= Len(route) THEN route[Len(route)]
    ELSE IF RLe(dist, Distance(route[i], route[i + 1]))
    THEN IF RLe(route[i], route[i + 1]) THEN RAdd(route[i], dist)
         ELSE RSub(route[i], dist)
    ELSE AlongFrom(route, i + 1, RSub(dist, Distance(route[i], route[i + 1])))
Along(route, dist) == AlongFrom(route, 1, dist)

\* makeRectangle: no rectangle between two points that coincide; else one
\* whose lengthKm is the distance between the points
makeRectangle(startPoint, endPoint) ==
    IF Distance(startPoint, endPoint) = Zero THEN << >>
    ELSE << [ lengthKm |-> Distance(startPoint, endPoint) ] >>

\* Math.floor of a number that is not negative
Floor(x) == x.n \div x.d

\* Math.round of a number that is not negative
Round(x) == (2 * x.n + x.d) \div (2 * x.d)

\* numSegments computed with Math.round
NumSegmentsRounded(totalKm, targetLengthKm) == Round(RDiv(totalKm, targetLengthKm))

\* numSegments computed with Math.ceil
NumSegmentsCeiling(totalKm, targetLengthKm) ==
    Floor(RDiv(totalKm, targetLengthKm))
    + (IF RDiv(totalKm, targetLengthKm).d = 1 THEN 0 ELSE 1)

NumSegments(totalKm, targetLengthKm) == Floor(RDiv(totalKm, targetLengthKm))

\* the pairs << startDist, endDist >> of a route longer than the target
UniformIntervals(totalKm, numSegments) ==
    [ i \in 1..numSegments |->
        << RMul(Rat(i - 1, 1), RDiv(totalKm, Rat(numSegments, 1))),
           RMul(Rat(i, 1), RDiv(totalKm, Rat(numSegments, 1))) >> ]

\* the pairs << startDist, endDist >> between which a route is cut
Intervals(totalKm, targetLengthKm) ==
    IF RLe(totalKm, targetLengthKm) THEN << << Zero, totalKm >> >>
    ELSE UniformIntervals(totalKm, NumSegments(totalKm, targetLengthKm))

RECURSIVE Rectangles(_, _, _)
Rectangles(route, intervals, i) ==
    IF i > Len(intervals) THEN << >>
    ELSE The({ makeRectangle(startPt, endPt) :
                 startPt \in { Along(route, intervals[i][1]) },
                 endPt \in { Along(route, intervals[i][2]) } })
         \o Rectangles(route, intervals, i + 1)

\* the segments of one route, in order: none of a route of length 0, and
\* none between two cuts that are the same point
RouteSegments(corridor, route, targetLengthKm) ==
    IF Length(route) = Zero THEN << >>
    ELSE The({ [ j \in DOMAIN rects |->
                   [ freeway |-> corridor,
                     length_ft |-> RMul(rects[j].lengthKm, FeetPerKm) ] ] :
               rects \in { Rectangles(route, intervals, 1) :
                             intervals \in { Intervals(totalKm, targetLengthKm) :
                                               totalKm \in { Length(route) } } } })

\* the segments of the routes of one corridor from route r on
RECURSIVE StitchedSegments(_, _, _, _)
StitchedSegments(corridor, stitchedRoutes, targetLengthKm, r) ==
    IF r > Len(stitchedRoutes) THEN << >>
    ELSE The({ RouteSegments(corridor, route, targetLengthKm) :
                 route \in { Route(stitchedRoutes[r]) } })
         \o StitchedSegments(corridor, stitchedRoutes, targetLengthKm, r + 1)

\* the segments of the corridors from group g on
RECURSIVE CorridorSegments(_, _, _)
CorridorSegments(groups, targetLengthKm, g) ==
    IF g > Len(groups) THEN << >>
    ELSE The({ StitchedSegments(groups[g].corridor, stitchedRoutes, targetLengthKm, 1) :
                 stitchedRoutes \in { stitchLineStrings(groups[g].features) } })
         \o CorridorSegments(groups, targetLengthKm, g + 1)

\* this.segments after generateSegments: the segments of the routes in
\* order, numbered as they are pushed, all eligible and without scores
generateSegments(config, datasets) ==
    The({ [ j \in DOMAIN pushed |->
              [ id |-> j - 1, eligible |-> TRUE, scores |-> << >>,
                freeway |-> pushed[j].freeway, length_ft |-> pushed[j].length_ft ] ] :
          pushed \in { CorridorSegments(groups, targetLengthKm, 1) :
                         groups \in { GroupLoop(Features(datasets, "freeways"), 1,
                                                config.selectedFreeways, << >>) },
                         targetLengthKm \in { RMul(Rat(config.segmentLength, 1), FT_TO_KM) } } })

\* ----------------------------------------------------------------- inputs
\* The configurations and dataset bundles a 'start' message may carry.  A
\* world is [config, datasets].  The worlds are the union of families; each
\* family varies the inputs of one gate or one scorer over all combinations
\* within the bounds and leaves the rest at BaseWorld.

Segs == 1..MaxSegments
Dists == 0..MaxDist

\* a distance per segment: d at segment 1, k further per segment, wrapping
Profile(d, k) == [ s \in Segs |-> (d + k * (s - 1)) % (MaxDist + 1) ]
Profiles == { Profile(d, 1) : d \in Dists }

\* touches the footprint of: no segment, segment 1 only, every segment
\* (0 = intersects, 1 = one unit away)
TouchProfiles ==
    { [ s \in Segs |-> 1 ], [ s \in Segs |-> IF s = 1 THEN 0 ELSE 1 ],
      [ s \in Segs |-> 0 ] }

Absent == [ present |-> FALSE, features |-> << >> ]
Dataset(feats) == [ present |-> TRUE, features |-> feats ]
\* absent, or present with up to MaxFeatures features drawn from S
DatasetsOver(S) ==
    { IF k < 0 THEN Absent ELSE Dataset(SubSeq(f, 1, k)) :
      f \in [1..MaxFeatures -> S], k \in -1..MaxFeatures }

Point(prof) == Feat("Point", prof, prof)
Polygon(prof) == Feat("Polygon", prof, prof)
Far == [ s \in Segs |-> MaxDist ]
Near == [ s \in Segs |-> 0 ]

BaseRequirements ==
    [ stationProximity |-> [ enabled |-> FALSE, distance |-> 2 ],
      neighborhoods |-> [ enabled |-> FALSE, selected |-> {} ],
      zoning |-> [ enabled |-> FALSE, allowed |-> {} ],
      ssa |-> [ enabled |-> FALSE ],
      tif |-> [ enabled |-> FALSE ],
      bridgeAge |-> [ enabled |-> FALSE, threshold |-> 80 ] ]

BaseFeatures ==
    [ k \in FeatureKeys |->
        [ weight |-> 0, radius |-> 2,
          direction |-> IF k \in {"adi", "transitDensity", "bikeNetwork"} THEN "higher"
                        ELSE IF k = "crashes" THEN "lower" ELSE "" ] ]

BaseConfig ==
    [ requirements |-> BaseRequirements, features |-> BaseFeatures, segmentLength |-> 300,
      selectedFreeways |-> {} ]

\* a freeway dataset that yields n segments of the target length 300 ft
Freeway(n) ==
    Dataset(IF n = 0 THEN << >> ELSE << LineString("I-90", << 0, 3 * n >>) >>)

BaseDatasets ==
    [ key \in DatasetKeys |-> IF key = "freeways" THEN Freeway(MaxSegments) ELSE Absent ]

BaseWorld == [ config |-> BaseConfig, datasets |-> BaseDatasets ]

WithGate(w, gate, field, value) ==
    [ w EXCEPT !.config.requirements[gate].enabled = TRUE,
               !.config.requirements[gate][field] = value ]
WithData(w, key, ds) == [ w EXCEPT !.datasets[key] = ds ]
WithFeature(w, key, weight, radius, direction) ==
    [ w EXCEPT !.config.features[key] =
                  [ weight |-> weight, radius |-> radius, direction |-> direction ] ]

Radii == 1..2
Directions == { "", "higher", "lower" }

\* station-proximity gate
StationWorlds ==
    { WithData(WithData(WithData(
        WithFeature(WithGate(BaseWorld, "stationProximity", "distance", dist),
                    "ctaStations", 3, 2, ""),
        "cta_rail_stations", cta), "metra_stations", metra), "amtrak_stations", amtrak) :
      dist \in 1..2,
      cta \in DatasetsOver({ Point(p) : p \in Profiles } \cup { Polygon(Near) }),
      metra \in { Absent, Dataset(<< >>), Dataset(<< Point(Far) >>) },
      amtrak \in { Absent, Dataset(<< >>) } }

\* neighborhood gate
Named(f, field, value) == [ f EXCEPT ![field] = value ]
NeighborhoodFeats ==
    UNION { { Named(Polygon(p), "pri_neigh", "Loop"),
              Named(Polygon(p), "name", "Pilsen"),
              Named(Named(Polygon(p), "neighborhood", "Uptown"), "PRI_NEIGH", "Loop"),
              Polygon(p) } : p \in TouchProfiles }

NeighborhoodWorlds ==
    { WithData(WithFeature(WithGate(BaseWorld, "neighborhoods", "selected", sel),
                           "neighborhoodCenter", 2, 2, ""),
               "neighborhoods", ds) :
      sel \in { {}, {"Loop"}, {"Loop", "Pilsen"} },
      ds \in DatasetsOver(NeighborhoodFeats) }

\* zoning gate
ZoneCodes ==
    { << >>, <<"R", "S", "-", "3">>, <<"B", "3", "-", "2">>, <<"r", "s", "-", "3">> }

ZoningWorlds ==
    { WithData(WithFeature(WithGate(BaseWorld, "zoning", "allowed", allowed),
                           "parks", 1, 1, ""),
               "zoning_districts", ds) :
      allowed \in { {}, {"residential"}, {"business", "planned"}, {"other"} },
      ds \in DatasetsOver({ [ Polygon(p) EXCEPT !.zone_class = z ] :
                            p \in TouchProfiles, z \in ZoneCodes }) }

\* zoning gate, one district: every kind of zone code against every category
AllZoneCodes ==
    { << >>, <<"R", "S", "-", "3">>, <<"R", "M", "-", "5">>, <<"R", "T", "-", "4">>,
      <<"R">>, <<"B", "1", "-", "1">>, <<"B", "3", "-", "2">>, <<"B", "4">>,
      <<"C", "2", "-", "3">>, <<"D", "X", "-", "1", "2">>, <<"D", "A">>,
      <<"M", "1", "-", "2">>, <<"P", "D", " ", "7">>, <<"P", "M", "D", " ", "4">>,
      <<"P", "O", "S", "-", "1">>, <<"T">>, <<"r", "s", "-", "3">>, <<"X", "R", "S">> }
Categories ==
    { "residential", "business", "commercial", "downtown", "industrial", "planned", "other" }

ZoneCodeWorlds ==
    { WithData(WithGate(BaseWorld, "zoning", "allowed", { c }), "zoning_districts",
               Dataset(<< [ Polygon([ s \in Segs |-> IF s = 1 THEN 0 ELSE 1 ])
                            EXCEPT !.zone_class = z ] >>)) :
      c \in Categories, z \in AllZoneCodes }

\* funding-district gates
FundingWorlds ==
    { [ WithData(WithData(WithFeature(BaseWorld, "ssa", 4, 2, ""),
                          "special_service_areas", ssa), "tif_districts", tif)
        EXCEPT !.config.requirements.ssa.enabled = "ssa" \in on,
               !.config.requirements.tif.enabled = "tif" \in on ] :
      on \in { {"ssa"}, {"tif"}, {"ssa", "tif"} },
      ssa \in DatasetsOver({ Polygon(p) : p \in TouchProfiles }),
      tif \in { Absent, Dataset(<< >>) }
              \cup { Dataset(<< Polygon(p) >>) : p \in TouchProfiles } }

\* bridge-age gate
BridgeAges == { None, Str, Num(40), Num(90) }
BridgeProfiles == { Profile(0, 1), Profile(1, 1), Profile(2, 1) }

BridgeWorlds ==
    { WithData(WithFeature(WithGate(BaseWorld, "bridgeAge", "threshold", th),
                           "bridges", 9, 2, ""),
               "bridges", ds) :
      th \in { 0, 75 },
      ds \in DatasetsOver({ [ Point(p) EXCEPT !.age = a ] :
                            p \in BridgeProfiles, a \in BridgeAges }
                          \cup { [ Polygon(Near) EXCEPT !.age = Num(90) ] }) }

\* point-proximity scorers
PointScoreWorlds ==
    { WithData(WithFeature(BaseWorld, key, 5, r, ""), PointDataset[key], ds) :
      key \in DOMAIN PointDataset, r \in Radii,
      ds \in DatasetsOver({ Point(p) : p \in Profiles } \cup { Polygon(Near) }) }

\* polygon-proximity scorers
PolygonScoreWorlds ==
    { WithData(WithFeature(BaseWorld, key, 5, r, ""), PolygonDataset[key], ds) :
      key \in DOMAIN PolygonDataset, r \in Radii,
      ds \in DatasetsOver({ Polygon(p) : p \in Profiles }
                          \cup { Feat("MultiPolygon", Far, Profile(1, 1)),
                                 [ Feat("Point", Near, Near) EXCEPT !.edist = Profile(1, 0) ],
                                 Feat("LineString", Near, Near) }) }

\* neighborhood-center scorer
CenterScoreWorlds ==
    { WithData(WithFeature(BaseWorld, "neighborhoodCenter", 5, r, ""), "neighborhoods", ds) :
      r \in Radii, ds \in DatasetsOver({ Polygon(p) : p \in Profiles }) }

\* block-group scorers: the block group contains the centre of segment 1
\* only, or of every segment
InsideProfiles == { [ s \in Segs |-> s = 1 ], [ s \in Segs |-> TRUE ] }
BlockAttrs ==
    { << None, Str >>, << Num(0), Num(0) >>, << Num(-5), Num(-110) >>,
      << Num(50), Num(1100) >>, << Num(150), Num(3300) >> }
BlockGroups ==
    { [ Polygon(Near) EXCEPT !.inside = ins, !.adi = a[1], !.crash_count = a[2] ] :
      ins \in InsideProfiles, a \in BlockAttrs }

BlockScoreWorlds ==
    { WithData(WithFeature(BaseWorld, key, 5, 2, dir), "block_groups_with_census", ds) :
      key \in { "adi", "crashes" }, dir \in Directions, ds \in DatasetsOver(BlockGroups) }

\* transit-stop density scorer
TransitScoreWorlds ==
    { WithData(WithData(WithFeature(BaseWorld, "transitDensity", 5, r, dir),
                        "cta_bus_stops", cta), "pace_bus_stops", pace) :
      r \in Radii, dir \in Directions,
      cta \in DatasetsOver({ Point(p) : p \in Profiles }),
      pace \in { Absent, Dataset(<< >>), Dataset(<< Point(Near) >>) } }

\* transit-stop density scorer, around and above the maximum of maxStops
\* stops: segment 1 has all the CTA stops within the radius, the other
\* segments have none of them
CrowdedTransitWorlds ==
    { WithData(WithData(WithFeature(BaseWorld, "transitDensity", 5, 1, dir),
                        "cta_bus_stops",
                        Dataset([ i \in 1..k |-> Point(Profile(0, MaxDist)) ])),
               "pace_bus_stops", pace) :
      dir \in { "higher", "lower" }, k \in (maxStops - 2)..maxStops,
      pace \in { Absent, Dataset(<< Point(Profile(0, MaxDist)) >>),
                 Dataset(<< Point(Profile(0, MaxDist)), Point(Profile(0, MaxDist)) >>) } }

\* bike-network scorer: mileage from mi_ctrline or from the computed length
Mileages ==
    { << None, 7 >>, << Num(0), 12 >>, << Num(30), 0 >>, << Num(60), 0 >>, << Str, 5 >> }

BikeScoreWorlds ==
    { WithData(WithFeature(BaseWorld, "bikeNetwork", 5, r, dir), "bike_routes", ds) :
      r \in Radii, dir \in Directions,
      ds \in DatasetsOver({ [ Feat("LineString", p, p) EXCEPT !.mi_ctrline = m[1], !.len = m[2] ] :
                            p \in { Near, Profile(0, MaxDist) }, m \in Mileages }) }

\* the whole pipeline on one rich bundle: every subset of gates enabled,
\* several weightings, every number of segments
RichDatasets ==
    [ key \in DatasetKeys |->
        CASE key = "freeways" -> Freeway(MaxSegments)
          [] key = "cta_rail_stations" -> Dataset(<< Point(Profile(1, 1)) >>)
          [] key = "metra_stations" -> Dataset(<< Point(Far) >>)
          [] key = "neighborhoods" ->
                Dataset(<< Named(Polygon(Profile(0, 1)), "pri_neigh", "Loop"),
                           Named(Polygon(Profile(1, 0)), "name", "Pilsen") >>)
          [] key = "zoning_districts" ->
                Dataset(<< [ Polygon(Near) EXCEPT !.zone_class = <<"B", "3", "-", "2">> ],
                           [ Polygon(Profile(1, 1)) EXCEPT !.zone_class = <<"R", "S", "-", "3">> ] >>)
          [] key = "special_service_areas" -> Dataset(<< Polygon(Profile(0, 1)) >>)
          [] key = "tif_districts" -> Dataset(<< Polygon(Profile(1, 1)), Polygon(Far) >>)
          [] key = "bridges" ->
                Dataset(<< [ Point(Profile(1, 1)) EXCEPT !.age = Num(90) ],
                           [ Point(Profile(2, MaxDist)) EXCEPT !.age = Num(40) ] >>)
          [] key = "parks" -> Dataset(<< Polygon(Profile(1, 0)) >>)
          [] key = "hospitals" -> Dataset(<< Point(Profile(0, 1)) >>)
          [] key = "block_groups_with_census" ->
                Dataset(<< [ Polygon(Near) EXCEPT !.inside = [ s \in Segs |-> TRUE ],
                                                  !.adi = Num(50), !.crash_count = Num(1100) ] >>)
          [] key = "cta_bus_stops" -> Dataset(<< Point(Near), Point(Profile(1, 1)) >>)
          [] key = "bike_routes" ->
                Dataset(<< [ Feat("LineString", Near, Near) EXCEPT !.mi_ctrline = Num(30) ] >>)
          [] OTHER -> Absent ]

Weightings ==
    { [ k \in FeatureKeys |-> 0 ],
      [ k \in FeatureKeys |-> IF k \in {"ctaStations", "parks", "adi"} THEN 3 ELSE 0 ],
      [ k \in FeatureKeys |-> IF k \in {"bridges", "ssa", "tif"} THEN 8 ELSE 0 ],
      [ k \in FeatureKeys |-> IF k = "parks" THEN 1 ELSE IF k = "adi" THEN 2
                              ELSE IF k = "hospitals" THEN 4 ELSE 0 ],
      [ k \in FeatureKeys |-> 5 ] }

PipelineWorlds ==
    { [ config |->
          [ requirements |->
              [ stationProximity |-> [ enabled |-> "stationProximity" \in on, distance |-> 2 ],
                neighborhoods |-> [ enabled |-> "neighborhoods" \in on, selected |-> {"Loop"} ],
                zoning |-> [ enabled |-> "zoning" \in on, allowed |-> {"business"} ],
                ssa |-> [ enabled |-> "ssa" \in on ],
                tif |-> [ enabled |-> "tif" \in on ],
                bridgeAge |-> [ enabled |-> "bridgeAge" \in on, threshold |-> 75 ] ],
            features |-> [ k \in FeatureKeys |-> [ BaseFeatures[k] EXCEPT !.weight = w[k] ] ],
            segmentLength |-> 300, selectedFreeways |-> {} ],
        datasets |-> [ RichDatasets EXCEPT !["freeways"] = Freeway(n) ] ] :
      on \in SUBSET GateNames, w \in Weightings, n \in 0..MaxSegments }

\* a bundle without the required freeway dataset
NoFreewayWorlds ==
    { [ BaseWorld EXCEPT !.datasets["freeways"] = Absent ],
      [ config |-> BaseConfig, datasets |-> [ RichDatasets EXCEPT !["freeways"] = Absent ] ] }
    \cup { [ w EXCEPT !.datasets["freeways"] = Absent ] :
             w \in { x \in PipelineWorlds :
                       /\ x.datasets["freeways"] = Freeway(MaxSegments)
                       /\ \A gate \in GateNames : x.config.requirements[gate].enabled } }

\* bundles with a feature on which geometry computations throw: one
\* dataset holds a good feature and one that is degenerate or invalid, in
\* either order, or the bad one alone, and one gate or one scorer reads it
Geometries == { "degenerate", "invalid" }
Broken(good, other) ==
    { Dataset(feats) :
        feats \in UNION { { << [ good EXCEPT !.geometry = g ] >>,
                            << [ other EXCEPT !.geometry = g ], good >>,
                            << good, [ other EXCEPT !.geometry = g ] >> } :
                          g \in Geometries } }
Containing(f) == [ f EXCEPT !.inside = [ s \in Segs |-> TRUE ] ]

GeometryFailureWorlds ==
    { WithData(WithGate(BaseWorld, "stationProximity", "distance", 1), "metra_stations", ds) :
        ds \in Broken(Point(Profile(0, 2)), Point(Far)) }
    \cup { WithData(WithGate(BaseWorld, "neighborhoods", "selected", {"Loop"}),
                    "neighborhoods", ds) :
             ds \in Broken(Named(Polygon(Profile(0, 1)), "pri_neigh", "Loop"),
                           Containing(Named(Polygon(Far), "name", "Loop"))) }
    \cup { WithData([ BaseWorld EXCEPT !.config.requirements.tif.enabled = TRUE ],
                    "tif_districts", ds) :
             ds \in Broken(Polygon(Profile(0, 1)), Containing(Polygon(Far))) }
    \cup { WithData(WithGate(BaseWorld, "bridgeAge", "threshold", 75), "bridges", ds) :
             ds \in Broken([ Point(Profile(0, 2)) EXCEPT !.age = Num(90) ],
                           [ Point(Profile(2, 1)) EXCEPT !.age = Num(40) ]) }
    \cup { WithData(WithFeature(BaseWorld, "hospitals", 5, 2, ""), "hospitals", ds) :
             ds \in Broken(Point(Profile(0, 1)), Point(Far)) }
    \cup { WithData(WithFeature(BaseWorld, "parks", 5, 2, ""), "parks", ds) :
             ds \in Broken(Polygon(Profile(0, 1)), Polygon(Profile(1, 0))) }
    \cup { WithData(WithFeature(BaseWorld, "neighborhoodCenter", 5, 2, ""),
                    "neighborhoods", ds) :
             ds \in Broken(Polygon(Profile(1, 1)), Polygon(Near)) }
    \cup { WithData(WithFeature(BaseWorld, key, 5, 2, "higher"),
                    "block_groups_with_census", ds) :
             key \in { "adi", "crashes" },
             ds \in Broken([ Polygon(Near) EXCEPT !.inside = [ s \in Segs |-> s = 1 ],
                                                  !.adi = Num(50), !.crash_count = Num(1100) ],
                           [ Containing(Polygon(Near)) EXCEPT
                                 !.adi = Num(150), !.crash_count = Num(3300) ]) }
    \cup { WithData(WithFeature(BaseWorld, "transitDensity", 5, 2, "higher"),
                    "cta_bus_stops", ds) :
             ds \in Broken(Point(Near), Point(Profile(1, 1))) }
    \cup { WithData(WithFeature(BaseWorld, "bikeNetwork", 5, 2, "higher"), "bike_routes", ds) :
             ds \in Broken([ Feat("LineString", Near, Near) EXCEPT !.mi_ctrline = Num(30) ],
                           [ Feat("LineString", Near, Near) EXCEPT !.mi_ctrline = Num(60) ]) }

WorldFamilies ==
    << StationWorlds, NeighborhoodWorlds, ZoningWorlds, ZoneCodeWorlds, FundingWorlds,
       BridgeWorlds, PointScoreWorlds, PolygonScoreWorlds,
       CenterScoreWorlds, BlockScoreWorlds, TransitScoreWorlds, CrowdedTransitWorlds,
       BikeScoreWorlds, PipelineWorlds, NoFreewayWorlds, GeometryFailureWorlds >>

\* the families that vary the inputs of the gates
GateWorldFamilies ==
    << StationWorlds, NeighborhoodWorlds, ZoningWorlds, FundingWorlds, BridgeWorlds,
       PipelineWorlds, NoFreewayWorlds >>

\* the families that run the whole pipeline on the rich bundle
PipelineWorldFamilies == << PipelineWorlds, NoFreewayWorlds >>

\* the bundles sent to an engine that handles several 'start' messages: the
\* rich bundle under few, under one and under all gates, with equal and
\* with unequal weights; a bundle without freeways; a bundle whose first
\* block group is invalid
MaxRuns == 2
RerunWorlds ==
    { w \in PipelineWorlds :
        /\ w.datasets["freeways"] = Freeway(MaxSegments)
        /\ { gate \in GateNames : w.config.requirements[gate].enabled }
               \in { {}, { "zoning" }, GateNames }
        /\ w.config.features["parks"].weight \in { 1, 5 } }
    \cup { [ BaseWorld EXCEPT !.datasets["freeways"] = Absent ], BaseWorld }
    \cup { w \in GeometryFailureWorlds :
             /\ w.config.features["adi"].weight > 0
             /\ Features(w.datasets, "block_groups_with_census")[1].geometry = "invalid" }

RerunWorldFamilies == << RerunWorlds >>

\* the bundles that exercise the segmenter: one route or two, straight
\* (also of length 0, and in either direction) or turning back once
\* (ending where it starts when the last coordinate is 0), under three
\* target lengths
SegmentLengths == { 100, 200, 300 }
StraightRoutes ==
    { << 0, t >> : t \in 0..MaxRouteLength } \cup { << t, 0 >> : t \in 1..3 }
BentRoutes == { << 0, a, b >> : a \in 1..(MaxRouteLength \div 3), b \in 0..2 }
SegmenterWorlds ==
    { [ config |-> [ BaseConfig EXCEPT !.segmentLength = length ],
        datasets |-> [ BaseDatasets EXCEPT
                         !["freeways"] = Dataset(<< LineString("I-90", route) >>) ] ] :
        length \in SegmentLengths, route \in StraightRoutes \cup BentRoutes }
    \cup { [ config |-> [ BaseConfig EXCEPT !.segmentLength = length ],
             datasets |-> [ BaseDatasets EXCEPT
                              !["freeways"] = Dataset(<< LineString("I-90", first),
                                                         LineString("I-290", << 0, t >>) >>) ] ] :
             length \in SegmentLengths, first \in BentRoutes, t \in 1..3 }

SegmenterWorldFamilies == << SegmenterWorlds >>

\* the bundles that exercise the stitching: up to MaxFragments fragments of
\* one corridor, each from one of the positions 0..MaxPosition to the same
\* position (of length 0) or to the next one, in either direction; the
\* target length of 1500 ft exceeds every route
Fragments ==
    { ab \in (0..MaxPosition) \X (0..MaxPosition) : ab[1] - ab[2] \in { -1, 0, 1 } }
StitchWorlds ==
    { [ config |-> [ BaseConfig EXCEPT !.segmentLength = 1500 ],
        datasets |-> [ BaseDatasets EXCEPT
                         !["freeways"] =
                             Dataset([ i \in 1..n |-> LineString("I-290", f[i]) ]) ] ] :
        f \in [ 1..MaxFragments -> Fragments ], n \in 1..MaxFragments }

\* the bundles that exercise the grouping: one feature of every geometry
\* type, road class, corridor_id and street name, before or after a
\* fragment of I-290 that continues it, under four selections
StreetNames ==
    { << >>, << "KENNEDY", "EXPY" >>, << "EISENHOWER", "EXPY" >>, << "MAIN", "ST" >> }
RoadClasses == { None, Num(0), Num(1), Num(2), Str }
Selections == { {}, { "I-290" }, { "I-90/94", "I-290" }, { "Unknown" } }
FreewayFeatures ==
    { [ LineString(corridor, << 0, 3 >>) EXCEPT
          !.gtype = gtype, !.CLASS = class, !.STREET_NAM = name ] :
      gtype \in { "LineString", "MultiLineString" }, class \in RoadClasses,
      corridor \in { "", "I-290", "I-55" }, name \in StreetNames }
GroupWorlds ==
    { [ config |-> [ BaseConfig EXCEPT !.selectedFreeways = selected ],
        datasets |-> [ BaseDatasets EXCEPT !["freeways"] = Dataset(features) ] ] :
        selected \in Selections,
        features \in UNION { { << f, LineString("I-290", << 3, 6 >>) >>,
                               << LineString("I-290", << 3, 6 >>), f >> } :
                             f \in FreewayFeatures } }

CorridorWorldFamilies == << StitchWorlds, GroupWorlds >>

\* ------------------------------------------------------------------ state
VARIABLES
    pc,         \* position of the worker: "idle" before the 'start' message,
                \* then the step of runAnalysis, "done" or "failed" at its end
    config,     \* this.config
    datasets,   \* this.datasets
    segments,   \* this.segments
    processed,  \* scoreSegments: segments scored so far
    results,    \* the result list of calculateFinalScores
    events,     \* the messages posted to the caller: type, percentage and,
                \* for the complete event, the result list
    started,    \* the number of messages posted before the 'start' message
                \* of the current run arrived
    randomFeatures, \* data.randomFeatures of the last message posted: the
                \* features getRandomFeatureCoordinates picked, << >> when
                \* the message carries none
    currentView,        \* state.currentView of the page
    isAnalyzing,        \* state.isAnalyzing
    analysisProgress,   \* state.analysisProgress
    analysisResults,    \* state.analysisResults: "null" or "results"
    segmentLength,      \* state.segmentLength: a number or NaN
    selectedFreeways,   \* state.selectedFreeways
    workers,            \* the workers the page has created, in order
    alerts              \* the number of alerts the page has shown

\* the state of the worker's engine and the state of the page
engine == << pc, config, datasets, segments, processed, results, events,
             started, randomFeatures >>
page == << currentView, isAnalyzing, analysisProgress, analysisResults, segmentLength,
           selectedFreeways, workers, alerts >>

vars == << engine, page >>

Progress(percentage) ==
    [ type |-> "progress", percentage |-> percentage, segments |-> << >>, totalSegments |-> 0,
      message |-> "", currentSegment |-> -1 ]
\* the progress message of scoreSegments, with the id of the segment scored
SegmentProgress(percentage, id) == [ Progress(percentage) EXCEPT !.currentSegment = id ]
Complete(res) ==
    [ type |-> "complete", percentage |-> 100, segments |-> res, totalSegments |-> Len(res),
      message |-> "", currentSegment |-> -1 ]
Error ==
    [ type |-> "error", percentage |-> 0, segments |-> << >>, totalSegments |-> 0,
      message |-> "error.message", currentSegment |-> -1 ]
\* the error event that answers a message of another type than 'start'
UnknownMessageType == [ Error EXCEPT !.message = "Unknown message type" ]

\* new AnalysisEngine()
Init ==
    /\ pc = "idle"
    /\ config = BaseConfig
    /\ datasets = [ key \in DatasetKeys |-> Absent ]
    /\ segments = << >>
    /\ processed = 0
    /\ results = << >>
    /\ events = << >>
    /\ started = 0
    /\ randomFeatures = << >>
    /\ currentView = "explore"
    /\ isAnalyzing = FALSE
    /\ analysisProgress = 0
    /\ analysisResults = "null"
    /\ segmentLength = Num(300)
    /\ selectedFreeways = { "I-90/94", "I-290" }
    /\ workers = << >>
    /\ alerts = 0

\* onmessage 'start' and the head of runAnalysis: config and datasets are
\* taken from the message
StartFrom(families) ==
    /\ pc = "idle"
    /\ \E i \in DOMAIN families : \E w \in families[i] :
          /\ config' = w.config
          /\ datasets' = w.datasets
    /\ started' = Len(events)
    /\ events' = Append(events, Progress(0))
    /\ pc' = "generate"
    /\ UNCHANGED << page, segments, processed, results, randomFeatures >>

Start == StartFrom(WorldFamilies)

\* a 'start' message whose bundle exercises the gates
StartGates == StartFrom(GateWorldFamilies)

\* the runs that have ended
FinishedRuns ==
    { e \in DOMAIN events :
        events[e].type \in { "complete", "error" } /\ events[e] # UnknownMessageType }

\* onmessage 'start' on the engine that has handled a 'start' message
\* before: runAnalysis runs to its end before the next message is handled;
\* this.config and this.datasets are taken from the message, this.segments
\* is as the earlier run left it
StartAgainFrom(families) ==
    /\ pc \in { "done", "failed" }
    /\ Cardinality(FinishedRuns) < MaxRuns
    /\ \E i \in DOMAIN families : \E w \in families[i] :
          /\ config' = w.config
          /\ datasets' = w.datasets
    /\ started' = Len(events)
    /\ events' = Append(events, Progress(0))
    /\ pc' = "generate"
    /\ UNCHANGED << page, segments, processed, results, randomFeatures >>

\* generateSegments without the reset of this.segments: a segment keeps
\* the flag the segment of its number had
GenerateSegmentsKeepingFlags ==
    /\ pc = "generate"
    /\ IF ~Has(datasets, "freeways")
       THEN /\ events' = Append(events, Error)
            /\ pc' = "failed"
            /\ UNCHANGED segments
       ELSE /\ segments' =
                    [ i \in DOMAIN generateSegments(config, datasets) |->
                        [ generateSegments(config, datasets)[i] EXCEPT
                            !.eligible = IF i \in DOMAIN segments THEN segments[i].eligible
                                         ELSE TRUE ] ]
            /\ events' = Append(events, Progress(0))
            /\ pc' = "stationProximity"
    /\ UNCHANGED << page, started, config, datasets, processed, results, randomFeatures >>

\* generateSegments without the test for the freeway dataset
GenerateSegmentsUnchecked ==
    /\ pc = "generate"
    /\ segments' = generateSegments(config, datasets)
    /\ events' = Append(events, Progress(0))
    /\ pc' = "stationProximity"
    /\ UNCHANGED << page, started, config, datasets, processed, results, randomFeatures >>

\* generateSegments: throws without the freeway dataset (the catch of
\* runAnalysis posts the error event), else resets this.segments and
\* creates the segments, all eligible and without scores
GenerateSegments ==
    /\ pc = "generate"
    /\ IF ~Has(datasets, "freeways")
       THEN /\ events' = Append(events, Error)
            /\ pc' = "failed"
            /\ UNCHANGED segments
       ELSE /\ segments' = generateSegments(config, datasets)
            /\ events' = Append(events, Progress(0))
            /\ pc' = "stationProximity"
    /\ UNCHANGED << page, started, config, datasets, processed, results, randomFeatures >>

\* one gate of applyRequirements; its exception is caught by runAnalysis,
\* which posts the error event
GateStep(gate, next) ==
    /\ pc = gate
    /\ IF GateThrows(gate, segments, config, datasets)
       THEN /\ events' = Append(events, Error)
            /\ pc' = "failed"
            /\ UNCHANGED segments
       ELSE /\ segments' = ApplyGate(gate, segments, config, datasets)
            /\ pc' = next
            /\ UNCHANGED events
    /\ UNCHANGED << page, started, config, datasets, processed, results, randomFeatures >>

StationProximityGate == GateStep("stationProximity", "neighborhoods")
NeighborhoodFilters == GateStep("neighborhoods", "zoning")
ZoningAllowlist == GateStep("zoning", "ssa")
SSAFilter == GateStep("ssa", "tif")
TIFFilter == GateStep("tif", "bridgeAge")

\* the last gate, and the progress message that precedes scoreSegments
BridgeConditionGate ==
    /\ pc = "bridgeAge"
    /\ IF GateThrows("bridgeAge", segments, config, datasets)
       THEN /\ events' = Append(events, Error)
            /\ pc' = "failed"
            /\ UNCHANGED << segments, processed >>
       ELSE /\ segments' = ApplyGate("bridgeAge", segments, config, datasets)
            /\ processed' = 0
            /\ events' = Append(events, Progress(0))
            /\ pc' = "score"
    /\ UNCHANGED << page, started, config, datasets, results, randomFeatures >>

\* the percentage of the segments still to score
RoundPercentRemaining(done, total) == (200 * (total - done) + total) \div (2 * total)

\* Math.round((processed / eligibleSegments.length) * 100)
RoundPercent(done, total) == (200 * done + total) \div (2 * total)

\* getRandomFeatureCoordinates: the lists it can return.  Math.random picks
\* datasets and features; a list stands here for its first element, a pair
\* of dataset key and feature number, and the empty list is returned when
\* every attempt hit a dataset that is absent or empty
RandomDatasetKeys ==
    { "cta_rail_stations", "metra_stations", "amtrak_stations", "parks",
      "public_schools", "private_schools", "colleges_universities",
      "hospitals", "landmarks", "stadiums", "bridges" }

getRandomFeatureCoordinates(ds) ==
    LET usable == { key \in RandomDatasetKeys : Has(ds, key) /\ Features(ds, key) # << >> }
    IN  UNION { { << << key, i >> >> : i \in 1..Len(Features(ds, key)) } : key \in usable }
        \cup (IF usable = RandomDatasetKeys THEN {} ELSE { << >> })

\* variant: the scores are written only when the random pick is not empty
ScoreSegmentSampled ==
    /\ pc = "score"
    /\ LET eligibleSegments == EligibleSegments(segments)
       IN  /\ processed < Len(eligibleSegments)
           /\ randomFeatures' \in getRandomFeatureCoordinates(datasets)
           /\ LET s == eligibleSegments[processed + 1]
              IN  segments' = IF randomFeatures' = << >> THEN segments
                              ELSE [ segments EXCEPT
                                       ![s].scores = SegmentScores(s, config, datasets) ]
           /\ processed' = processed + 1
           /\ events' = Append(events,
                 SegmentProgress(RoundPercent(processed + 1, Len(eligibleSegments)),
                                 segments[eligibleSegments[processed + 1]].id))
    /\ UNCHANGED << page, pc, started, config, datasets, results >>

\* one iteration of the scoreSegments loop: the next eligible segment gets
\* its scores and a progress message is posted
ScoreSegment ==
    /\ pc = "score"
    /\ LET eligibleSegments == EligibleSegments(segments)
       IN  /\ processed < Len(eligibleSegments)
           /\ LET s == eligibleSegments[processed + 1]
              IN  IF ScoringThrows(s, config, datasets)
                  THEN /\ events' = Append(events, Error)
                       /\ randomFeatures' = << >>
                       /\ pc' = "failed"
                       /\ UNCHANGED << segments, processed >>
                  ELSE /\ segments' = [ segments EXCEPT
                                          ![s].scores = SegmentScores(s, config, datasets) ]
                       /\ processed' = processed + 1
                       /\ events' = Append(events,
                             SegmentProgress(RoundPercent(processed + 1, Len(eligibleSegments)),
                                             segments[s].id))
                       /\ randomFeatures' \in getRandomFeatureCoordinates(datasets)
                       /\ pc' = pc
    /\ UNCHANGED << page, started, config, datasets, results >>

\* calculateFinalScores without waiting for the end of the scoreSegments loop
CalculateFinalScoresEarly ==
    /\ pc = "score"
    /\ results' = calculateFinalScores(segments, config)
    /\ events' = Append(events, Progress(100))
    /\ randomFeatures' = << >>
    /\ pc' = "complete"
    /\ UNCHANGED << page, started, config, datasets, segments, processed >>

\* the end of the scoreSegments loop and calculateFinalScores
CalculateFinalScores ==
    /\ pc = "score"
    /\ processed = Len(EligibleSegments(segments))
    /\ results' = calculateFinalScores(segments, config)
    /\ events' = Append(events, Progress(100))
    /\ randomFeatures' = << >>
    /\ pc' = "complete"
    /\ UNCHANGED << page, started, config, datasets, segments, processed >>

\* the tail of runAnalysis: the last progress message and the complete event
PostComplete ==
    /\ pc = "complete"
    /\ events' = events \o << Progress(100), Complete(results) >>
    /\ pc' = "done"
    /\ UNCHANGED << page, started, config, datasets, segments, processed, results, randomFeatures >>

Next ==
    \/ Start
    \/ GenerateSegments
    \/ StationProximityGate
    \/ NeighborhoodFilters
    \/ ZoningAllowlist
    \/ SSAFilter
    \/ TIFFilter
    \/ BridgeConditionGate
    \/ ScoreSegment
    \/ CalculateFinalScores
    \/ PostComplete

Spec == Init /\ [][Next]_vars

\* a 'start' message that carries the rich bundle
StartPipeline == StartFrom(PipelineWorldFamilies)

\* the steps of runAnalysis once the 'start' message has arrived
Run ==
    \/ GenerateSegments
    \/ StationProximityGate
    \/ NeighborhoodFilters
    \/ ZoningAllowlist
    \/ SSAFilter
    \/ TIFFilter
    \/ BridgeConditionGate
    \/ ScoreSegment
    \/ CalculateFinalScores
    \/ PostComplete

NextGates == StartGates \/ Run

NextPipeline == StartPipeline \/ Run

\* the runs over the rich bundle, under every choice of gates and weights
PipelineSpec == Init /\ [][NextPipeline]_vars

\* onmessage that starts a run on a message of another type as well
UnknownMessageStartsRun ==
    /\ pc \in { "idle", "done", "failed" }
    /\ Cardinality({ e \in DOMAIN events : events[e] = UnknownMessageType }) < MaxUnknown
    /\ events' = Append(events, UnknownMessageType)
    /\ pc' = "generate"
    /\ UNCHANGED << page, started, config, datasets, segments, processed, results,
                    randomFeatures >>

\* onmessage with a message of another type than 'start': the error event
\* is posted and nothing else happens; the message is handled when no run
\* is under way
UnknownMessage ==
    /\ pc \in { "idle", "done", "failed" }
    /\ Cardinality({ e \in DOMAIN events : events[e] = UnknownMessageType }) < MaxUnknown
    /\ events' = Append(events, UnknownMessageType)
    /\ UNCHANGED << page, pc, started, config, datasets, segments, processed, results,
                    randomFeatures >>

\* several 'start' messages to one engine, one after another
StartRerun == StartFrom(RerunWorldFamilies)
StartAgain == StartAgainFrom(RerunWorldFamilies)

NextRerun == StartRerun \/ StartAgain \/ Run

RerunSpec == Init /\ [][NextRerun]_vars

NextMessages == StartRerun \/ StartAgain \/ UnknownMessage \/ Run

\* the messages of any type to one engine, one after another; a run that
\* has started runs to its end
MessageSpec == Init /\ [][NextMessages]_vars /\ WF_vars(Run)

\* a 'start' message whose bundle exercises the segmenter
StartSegmenter == StartFrom(SegmenterWorldFamilies)

NextSegmenter == StartSegmenter \/ Run

\* the runs over the bundles that exercise the segmenter
SegmenterSpec == Init /\ [][NextSegmenter]_vars

\* a 'start' message whose bundle exercises the grouping and the stitching
StartCorridors == StartFrom(CorridorWorldFamilies)

NextCorridors == StartCorridors \/ Run

\* the runs over the bundles that exercise the grouping and the stitching
CorridorSpec == Init /\ [][NextCorridors]_vars

\* the runs over the bundles that exercise the gates.  runAnalysis is one
\* async function that runs to its end: a step that can be taken is taken.
FairSpec == Init /\ [][NextGates]_vars /\ WF_vars(Run)

\* --------------------------------------------------------------- the page
\* The page that starts the analysis (state.js, ui.js).  A control can be
\* clicked while the view that holds it is shown: the preference controls
\* and the initiate-analysis button in the preferences view, the
\* update-preferences button in the results view, the tabs always.  A
\* worker of the page is "created" from new Worker() on, "started" once the
\* 'start' message is posted to it, and "terminated" after
\* worker.terminate(); it posts progress messages and then one complete or
\* error message, which are delivered until it is terminated.

Freeways == { "I-90/94", "I-290" }
NaN == [k |-> "NaN", v |-> 0]
\* the values parseInt gives for what is typed into the length field
TypedLengths == { NaN, Num(99), Num(100), Num(300), Num(1500), Num(1501) }
Percentages == { 0, 50, 100 }

\* isValidForAnalysis; a comparison with NaN is false
isValidForAnalysis ==
    /\ selectedFreeways # {}
    /\ segmentLength # NaN
    /\ segmentLength.v >= 100
    /\ segmentLength.v <= 1500

LiveWorkers == { w \in DOMAIN workers : workers[w] # "terminated" }

\* click on the explore tab: switchToTab('explore')
ClickExploreTab ==
    /\ currentView' = "explore"
    /\ UNCHANGED << engine, isAnalyzing, analysisProgress, analysisResults, segmentLength,
                    selectedFreeways, workers, alerts >>

\* click on the analyze tab: ignored while the results are shown, else
\* switchToTab('analyze')
ClickAnalyzeTab ==
    /\ ~(currentView = "results" /\ analysisResults # "null")
    /\ currentView' = IF analysisResults # "null" THEN "results" ELSE "preferences"
    /\ UNCHANGED << engine, isAnalyzing, analysisProgress, analysisResults, segmentLength,
                    selectedFreeways, workers, alerts >>

\* input into the segment length field: setSegmentLength(parseInt(value))
InputSegmentLength ==
    /\ currentView = "preferences"
    /\ \E length \in TypedLengths : segmentLength' = length
    /\ UNCHANGED << engine, currentView, isAnalyzing, analysisProgress, analysisResults,
                    selectedFreeways, workers, alerts >>

\* change of a freeway checkbox: toggleFreewaySelection
ToggleFreewaySelection ==
    /\ currentView = "preferences"
    /\ \E freeway \in Freeways, enabled \in BOOLEAN :
          selectedFreeways' = IF enabled THEN selectedFreeways \cup { freeway }
                              ELSE selectedFreeways \ { freeway }
    /\ UNCHANGED << engine, currentView, isAnalyzing, analysisProgress, analysisResults,
                    segmentLength, workers, alerts >>

\* initiateAnalysis without the validation
InitiateAnalysisUnchecked ==
    /\ currentView = "preferences"
    /\ Len(workers) < MaxWorkers
    /\ currentView' = "analysis"
    /\ isAnalyzing' = TRUE
    /\ analysisProgress' = 0
    /\ workers' = Append(workers, "created")
    /\ UNCHANGED << engine, analysisResults, segmentLength, selectedFreeways, alerts >>

\* click on the initiate-analysis button: initiateAnalysis, and
\* runAnalysisWithWorker up to its await; an invalid configuration is
\* answered by an alert
InitiateAnalysis ==
    /\ currentView = "preferences"
    /\ IF ~isValidForAnalysis
       THEN /\ alerts < MaxAlerts
            /\ alerts' = alerts + 1
            /\ UNCHANGED << currentView, isAnalyzing, analysisProgress, workers >>
       ELSE /\ Len(workers) < MaxWorkers
            /\ currentView' = "analysis"
            /\ isAnalyzing' = TRUE
            /\ analysisProgress' = 0
            /\ workers' = Append(workers, "created")
            /\ UNCHANGED alerts
    /\ UNCHANGED << engine, analysisResults, segmentLength, selectedFreeways >>

\* runAnalysisWithWorker after gatherDatasetsForAnalysis: the 'start'
\* message is posted; a worker terminated meanwhile is not started
PostStart ==
    /\ \E w \in DOMAIN workers :
          /\ workers[w] = "created"
          /\ workers' = [ workers EXCEPT ![w] = "started" ]
    /\ UNCHANGED << engine, currentView, isAnalyzing, analysisProgress, analysisResults,
                    segmentLength, selectedFreeways, alerts >>

\* worker.onmessage 'progress': updateAnalysisProgress
WorkerProgress ==
    /\ \E w \in DOMAIN workers :
          /\ workers[w] = "started"
          /\ \E percentage \in Percentages : analysisProgress' = percentage
    /\ UNCHANGED << engine, currentView, isAnalyzing, analysisResults, segmentLength,
                    selectedFreeways, workers, alerts >>

\* worker.onmessage 'complete': completeAnalysis, worker.terminate()
WorkerComplete ==
    /\ \E w \in DOMAIN workers :
          /\ workers[w] = "started"
          /\ workers' = [ workers EXCEPT ![w] = "terminated" ]
    /\ isAnalyzing' = FALSE
    /\ analysisProgress' = 100
    /\ analysisResults' = "results"
    /\ currentView' = "results"
    /\ UNCHANGED << engine, segmentLength, selectedFreeways, alerts >>

\* worker.onmessage 'error': alert, resetAnalysisState, worker.terminate()
WorkerError ==
    /\ \E w \in DOMAIN workers :
          /\ workers[w] = "started"
          /\ workers' = [ workers EXCEPT ![w] = "terminated" ]
    /\ isAnalyzing' = FALSE
    /\ analysisProgress' = 0
    /\ alerts' = IF alerts < MaxAlerts THEN alerts + 1 ELSE alerts
    /\ UNCHANGED << engine, currentView, analysisResults, segmentLength, selectedFreeways >>

\* worker.onerror: alert, resetAnalysisState, worker.terminate()
WorkerFailed ==
    /\ \E w \in LiveWorkers : workers' = [ workers EXCEPT ![w] = "terminated" ]
    /\ isAnalyzing' = FALSE
    /\ analysisProgress' = 0
    /\ alerts' = IF alerts < MaxAlerts THEN alerts + 1 ELSE alerts
    /\ UNCHANGED << engine, currentView, analysisResults, segmentLength, selectedFreeways >>

\* click on the update-preferences button: resetToExplore,
\* switchToTab('analyze'), setCurrentView('preferences')
ClickUpdatePreferences ==
    /\ currentView = "results"
    /\ isAnalyzing' = FALSE
    /\ analysisProgress' = 0
    /\ analysisResults' = "null"
    /\ currentView' = "preferences"
    /\ UNCHANGED << engine, segmentLength, selectedFreeways, workers, alerts >>

NextPage ==
    \/ ClickExploreTab
    \/ ClickAnalyzeTab
    \/ InputSegmentLength
    \/ ToggleFreewaySelection
    \/ InitiateAnalysis
    \/ PostStart
    \/ WorkerProgress
    \/ WorkerComplete
    \/ WorkerError
    \/ WorkerFailed
    \/ ClickUpdatePreferences

\* the clicks on the page and the messages of its workers, interleaved
PageSpec == Init /\ [][NextPage]_vars

TypeOK ==
    /\ pc \in { "idle", "failed", "done", "generate", "stationProximity", "neighborhoods", "zoning",
                "ssa", "tif", "bridgeAge", "score", "complete" }
    /\ Len(segments) <= MaxSegments + MaxRouteLength + 3
    /\ processed \in 0..Len(segments)
    /\ \A s \in DOMAIN segments : segments[s].id = s - 1
    /\ started \in 0..Len(events)

\* ----------------------------------------------------------------- claims
EnabledGates(cfg) == { g \in GateNames : cfg.requirements[g].enabled }
EligibleSet(segs) == { s \in DOMAIN segs : segs[s].eligible }

RECURSIVE GateOrders(_)
GateOrders(S) ==
    IF S = {} THEN { << >> }
    ELSE UNION { { << x >> \o p : p \in GateOrders(S \ { x }) } : x \in S }

\* C1: no step of a run sets a segment's eligible flag from false back to
\* true: in every step, a segment that is eligible afterwards was eligible
\* before.
C1_EligibleOnlyFalls ==
    [][ \A s \in (DOMAIN segments) \cap (DOMAIN segments') :
            segments'[s].eligible => segments[s].eligible ]_vars

\* a finished run in which two gates were enabled, one segment was excluded
\* and another one was kept and scored
C1_Witness ==
    /\ pc = "done"
    /\ Cardinality(EnabledGates(config)) >= 2
    /\ \E s, t \in DOMAIN segments :
          /\ ~segments[s].eligible
          /\ segments[t].eligible
          /\ DOMAIN segments[t].scores # {}

\* C2: right after the gate pipeline, the set of eligible segments equals
\* the set obtained by applying the enabled gates to the freshly generated
\* segments in any order.
C2_GateOrderIrrelevant ==
    (pc = "score" /\ processed = 0) =>
        \A order \in GateOrders(EnabledGates(config)) :
            EligibleSet(ApplyGates(order, generateSegments(config, datasets), config, datasets))
                = EligibleSet(segments)

\* the gates have run, at least three were enabled, and they excluded some
\* but not all segments
C2_Witness ==
    /\ pc = "score" /\ processed = 0
    /\ Cardinality(EnabledGates(config)) >= 3
    /\ EligibleSet(segments) # {}
    /\ EligibleSet(segments) # DOMAIN segments

\* the stations of the bundle: the Point features of the station datasets
\* it holds
StationSet(ds) ==
    UNION { { f \in { Features(ds, StationKeys[i])[j] :
                      j \in 1..Len(Features(ds, StationKeys[i])) } : f.gtype = "Point" } :
            i \in { i \in 1..3 : Has(ds, StationKeys[i]) } }

\* C3: with the station-proximity gate enabled, a segment (every segment is
\* eligible when this first gate runs) is excluded if and only if there is
\* at least one station in the three station datasets and every station is
\* farther from the segment centre than the configured distance; with no
\* station the gate excludes nothing.
C3_StationGateIff ==
    (pc = "neighborhoods" /\ config.requirements.stationProximity.enabled) =>
        \A s \in DOMAIN segments :
            ~segments[s].eligible <=>
                /\ StationSet(datasets) # {}
                /\ \A st \in StationSet(datasets) :
                      st.cdist[s] > config.requirements.stationProximity.distance

\* the gate has run on a bundle that holds a station dataset without any
\* station, and it has excluded every segment
C3_Witness ==
    /\ pc = "neighborhoods"
    /\ config.requirements.stationProximity.enabled
    /\ \E i \in 1..3 : Has(datasets, StationKeys[i])
    /\ StationSet(datasets) = {}
    /\ segments # << >>
    /\ \A s \in DOMAIN segments : ~segments[s].eligible

\* the segment intersects a zoning polygon of an allowed category
IntersectsAllowedZone(s, cfg, ds) ==
    \E i \in 1..Len(Features(ds, "zoning_districts")) :
        LET z == Features(ds, "zoning_districts")[i]
        IN  /\ z.bdist[s] = 0
            /\ categorizeZoning(z.zone_class) \in cfg.requirements.zoning.allowed

\* C4 as stated: the zoning gate keeps an eligible segment if and only if
\* it intersects a zoning polygon of an allowed category, whether or not
\* the zoning dataset is in the bundle.
C4_ZoningIffAlways ==
    [][ (pc = "zoning" /\ config.requirements.zoning.enabled) =>
            \A s \in DOMAIN segments :
                segments[s].eligible =>
                    (segments'[s].eligible <=> IntersectsAllowedZone(s, config, datasets))
      ]_vars

\* C4: with the zoning gate enabled and an empty allowed set, every segment
\* is ineligible after the gate; with the zoning dataset in the bundle, an
\* eligible segment stays eligible if and only if it intersects a zoning
\* polygon whose categorizeZoning category is allowed; with a non-empty
\* allowed set and no zoning dataset, the gate changes no segment.
C4_ZoningIff ==
    [][ (pc = "zoning" /\ config.requirements.zoning.enabled) =>
            /\ config.requirements.zoning.allowed = {} =>
                  \A s \in DOMAIN segments : ~segments'[s].eligible
            /\ Has(datasets, "zoning_districts") =>
                  \A s \in DOMAIN segments :
                      segments[s].eligible =>
                          (segments'[s].eligible
                              <=> IntersectsAllowedZone(s, config, datasets))
            /\ (~Has(datasets, "zoning_districts")
                    /\ config.requirements.zoning.allowed # {}) =>
                  segments' = segments
      ]_vars

\* the zoning gate has kept one segment and excluded another
C4_Witness ==
    /\ pc = "ssa"
    /\ config.requirements.zoning.enabled
    /\ Has(datasets, "zoning_districts")
    /\ \E s, t \in DOMAIN segments :
          /\ segments[s].eligible
          /\ IntersectsAllowedZone(s, config, datasets)
          /\ ~segments[t].eligible
          /\ ~IntersectsAllowedZone(t, config, datasets)

\* the datasets a gate reads
GateDatasets(gate) ==
    CASE gate = "stationProximity" -> { StationKeys[i] : i \in 1..3 }
      [] gate = "neighborhoods" -> { "neighborhoods" }
      [] gate = "zoning" -> { "zoning_districts" }
      [] gate = "ssa" -> { "special_service_areas" }
      [] gate = "tif" -> { "tif_districts" }
      [] gate = "bridgeAge" -> { "bridges" }

\* the gate about to run is enabled and none of its datasets is in the bundle
GateWithoutData(gate) ==
    /\ pc = gate
    /\ config.requirements[gate].enabled
    /\ \A k \in GateDatasets(gate) : ~Has(datasets, k)

LastEventIsComplete ==
    /\ pc = "done"
    /\ events # << >>
    /\ events[Len(events)].type = "complete"

\* C5 as stated: an enabled gate whose dataset is absent changes no segment,
\* whatever its parameters.
C5_AbsentDatasetNoOpAlways ==
    [][ \A gate \in GateNames : GateWithoutData(gate) => segments' = segments ]_vars

\* C5: an enabled gate whose dataset is absent changes no segment, except
\* the zoning gate with an empty allowed set, which makes every segment
\* ineligible; in both cases the run goes on to end with a complete event.
C5_AbsentDatasetNoOp ==
    /\ [][ \A gate \in GateNames :
              GateWithoutData(gate) =>
                  IF gate = "zoning" /\ config.requirements.zoning.allowed = {}
                  THEN \A s \in DOMAIN segments : ~segments'[s].eligible
                  ELSE segments' = segments ]_vars
    /\ (\E gate \in GateNames : GateWithoutData(gate)) ~> LastEventIsComplete

\* a run has ended with a complete event after an enabled gate found its
\* dataset missing and left its eligible segments as they were
C5_Witness ==
    /\ LastEventIsComplete
    /\ \E gate \in GateNames \ { "zoning" } :
          /\ config.requirements[gate].enabled
          /\ \A k \in GateDatasets(gate) : ~Has(datasets, k)
          /\ EnabledGates(config) = { gate }
    /\ segments # << >>
    /\ \A s \in DOMAIN segments : segments[s].eligible

\* the datasets the scorer of a feature reads
ScorerDatasets(key) ==
    IF key \in DOMAIN PointDataset THEN { PointDataset[key] }
    ELSE IF key \in DOMAIN PolygonDataset THEN { PolygonDataset[key] }
    ELSE IF key = "neighborhoodCenter" THEN { "neighborhoods" }
    ELSE IF key \in { "adi", "crashes" } THEN { "block_groups_with_census" }
    ELSE IF key = "transitDensity" THEN { "cta_bus_stops", "pace_bus_stops" }
    ELSE { "bike_routes" }

\* C6: a score written for a feature none of whose datasets is in the
\* bundle is 0, whatever radius and direction the feature has.
C6_AbsentDataScoresZero ==
    \A s \in DOMAIN segments :
        \A key \in DOMAIN segments[s].scores :
            (\A k \in ScorerDatasets(key) : ~Has(datasets, k)) =>
                segments[s].scores[key] = Zero

\* a segment was scored for transit density in direction 'lower' without
\* any bus-stop dataset in the bundle, and its score is not 0
C6_Witness ==
    /\ ~Has(datasets, "cta_bus_stops")
    /\ ~Has(datasets, "pace_bus_stops")
    /\ config.features["transitDensity"].direction = "lower"
    /\ \E s \in DOMAIN segments :
          /\ "transitDensity" \in DOMAIN segments[s].scores
          /\ segments[s].scores["transitDensity"] = Rat(79, 8)

\* the bridges that have a known numeric age, and those of them nearest to
\* a segment
AgedBridges(ds) ==
    { i \in 1..Len(Features(ds, "bridges")) :
        /\ Features(ds, "bridges")[i].gtype = "Point"
        /\ Features(ds, "bridges")[i].age.k = "num" }

NearestAgedBridges(ds, s) ==
    { i \in AgedBridges(ds) :
        \A j \in AgedBridges(ds) :
            Features(ds, "bridges")[i].bdist[s] <= Features(ds, "bridges")[j].bdist[s] }

\* C7: with the bridge-age gate enabled, an eligible segment is excluded if
\* and only if some bridge has a known numeric age and the nearest such
\* bridge is older than the configured threshold (among equally near
\* bridges: excluded only if one of them is older, and excluded whenever
\* all of them are); bridges of unknown age play no part.
C7_BridgeGateIff ==
    [][ (pc = "bridgeAge" /\ config.requirements.bridgeAge.enabled) =>
            \A s \in DOMAIN segments :
                segments[s].eligible =>
                    LET nearest == NearestAgedBridges(datasets, s)
                        older(i) == Features(datasets, "bridges")[i].age.v
                                        > config.requirements.bridgeAge.threshold
                    IN  /\ ~segments'[s].eligible => \E i \in nearest : older(i)
                        /\ (nearest # {} /\ \A i \in nearest : older(i))
                              => ~segments'[s].eligible
      ]_vars

\* the gate has run with threshold 0 and has kept a segment whose only
\* nearest bridge of known age is 40 years old
C7_Witness ==
    /\ pc = "score"
    /\ config.requirements.bridgeAge.enabled
    /\ config.requirements.bridgeAge.threshold = 0
    /\ \E s \in DOMAIN segments :
          /\ segments[s].eligible
          /\ NearestAgedBridges(datasets, s) # {}
          /\ \A i \in NearestAgedBridges(datasets, s) :
                Features(datasets, "bridges")[i].age.v = 40

\* the results of a whole run on n segments
RunResults(cfg, ds) ==
    LET gated == applyRequirements(generateSegments(cfg, ds), cfg, ds)
        scored == [ s \in DOMAIN gated |->
                      IF gated[s].eligible
                      THEN [ gated[s] EXCEPT !.scores = SegmentScores(s, cfg, ds) ]
                      ELSE gated[s] ]
    IN  calculateFinalScores(scored, cfg)

\* the final score of every ranked segment
FinalScores(res) == { << res[j].id, res[j].score >> : j \in DOMAIN res }

ZeroWeightKeys(cfg) == { key \in FeatureKeys : cfg.features[key].weight = 0 }

\* the configuration with another radius and direction for one feature
Retuned(cfg, key, radius, direction) ==
    [ cfg EXCEPT !.features[key].radius = radius, !.features[key].direction = direction ]

\* other contents for a dataset of the bundle
OtherDatasets ==
    { Absent, Dataset(<< >>), Dataset(<< Point(Near) >>), Dataset(<< Polygon(Near) >>) }

\* no enabled gate and no feature of positive weight reads the dataset
ReadOnlyByZeroWeight(cfg, k) ==
    /\ \A gate \in EnabledGates(cfg) : k \notin GateDatasets(gate)
    /\ \A key \in FeatureKeys \ ZeroWeightKeys(cfg) : k \notin ScorerDatasets(key)

\* the score map of every segment has keys of positive weight only, the
\* score map of an ineligible segment is empty, and so is it in the results
ScoreKeysHavePositiveWeight ==
    /\ \A s \in DOMAIN segments :
          /\ \A key \in DOMAIN segments[s].scores : config.features[key].weight > 0
          /\ ~segments[s].eligible => DOMAIN segments[s].scores = {}
    /\ \A j \in DOMAIN results :
          \A key \in DOMAIN results[j].featureScores : config.features[key].weight > 0

\* the final scores of the finished run are those of the run with another
\* radius and direction for a feature of weight 0
RetuningZeroWeightChangesNothing ==
    pc = "done" =>
        \A key \in ZeroWeightKeys(config) : \A radius \in Radii, direction \in Directions :
            FinalScores(RunResults(Retuned(config, key, radius, direction), datasets))
                = FinalScores(results)

\* C8 as stated: score maps have keys of positive weight only and are empty
\* for ineligible segments, and another radius, direction or dataset for a
\* feature of weight 0 leaves every final score as it is.
C8_ZeroWeightNeverCountsAlways ==
    /\ ScoreKeysHavePositiveWeight
    /\ RetuningZeroWeightChangesNothing
    /\ pc = "done" =>
          \A key \in ZeroWeightKeys(config) : \A k \in ScorerDatasets(key) :
              \A other \in OtherDatasets :
                  FinalScores(RunResults(config, [ datasets EXCEPT ![k] = other ]))
                      = FinalScores(results)

\* C8: score maps have keys of positive weight only and are empty for
\* ineligible segments; another radius or direction for a feature of weight
\* 0 leaves every final score as it is, and so does another dataset for it
\* when no enabled gate and no feature of positive weight reads that dataset.
C8_ZeroWeightNeverCounts ==
    /\ ScoreKeysHavePositiveWeight
    /\ RetuningZeroWeightChangesNothing
    /\ pc = "done" =>
          \A key \in ZeroWeightKeys(config) : \A k \in ScorerDatasets(key) :
              ReadOnlyByZeroWeight(config, k) =>
                  \A other \in OtherDatasets :
                      FinalScores(RunResults(config, [ datasets EXCEPT ![k] = other ]))
                          = FinalScores(results)

\* a finished run with features of weight 0 and of positive weight, a gate
\* that excluded a segment, and a ranked segment of positive final score
C8_Witness ==
    /\ pc = "done"
    /\ ZeroWeightKeys(config) \notin { {}, FeatureKeys }
    /\ \E key \in ZeroWeightKeys(config) : \E k \in ScorerDatasets(key) :
          Has(datasets, k) /\ ReadOnlyByZeroWeight(config, k)
    /\ \E s \in DOMAIN segments : ~segments[s].eligible
    /\ \E j \in DOMAIN results : results[j].score # Zero

\* C9: every value in a segment's score map is a number from 0 to 10.
C9_ScoresInRange ==
    \A s \in DOMAIN segments :
        \A key \in DOMAIN segments[s].scores :
            /\ 0 <= segments[s].scores[key].n
            /\ segments[s].scores[key].n <= 10 * segments[s].scores[key].d

\* a segment in a block group of ADI -5 was scored for ADI in direction
\* 'higher', and its score is -0.5
C9_Witness ==
    /\ config.features["adi"].direction = "higher"
    /\ \E s \in DOMAIN segments :
          /\ "adi" \in DOMAIN segments[s].scores
          /\ segments[s].scores["adi"] = [n |-> -1, d |-> 2]
          /\ \E i \in 1..Len(Features(datasets, "block_groups_with_census")) :
                LET bg == Features(datasets, "block_groups_with_census")[i]
                IN  bg.inside[s] /\ bg.adi = Num(-5)

\* the distances from a segment to the point features of the dataset of a
\* point-proximity feature
PointDistances(ds, key, s) ==
    { Features(ds, PointDataset[key])[i].bdist[s] :
        i \in { i \in 1..Len(Features(ds, PointDataset[key])) :
                  Features(ds, PointDataset[key])[i].gtype = "Point" } }

Least(D) == CHOOSE d \in D : \A e \in D : d <= e

\* C10: a point-proximity score is 0 when the dataset has no point feature;
\* otherwise, with d the least distance to a point feature and r the radius,
\* it equals max(0, 1 - d/r) * 10, which is 10 at d = 0 and 0 at d >= r, and
\* a segment at least as far from its nearest point scores no higher.
C10_PointProximityScore ==
    \A s \in DOMAIN segments :
        \A key \in (DOMAIN segments[s].scores) \cap (DOMAIN PointDataset) :
            LET D == PointDistances(datasets, key, s)
                r == config.features[key].radius
                score == segments[s].scores[key]
            IN  IF D = {} THEN score = [n |-> 0, d |-> 1]
                ELSE LET d == Least(D)
                     IN  /\ score.n * r = 10 * (IF d >= r THEN 0 ELSE r - d) * score.d
                         /\ d = 0 => score = [n |-> 10, d |-> 1]
                         /\ d >= r => score = [n |-> 0, d |-> 1]
                         /\ \A t \in DOMAIN segments :
                               (/\ key \in DOMAIN segments[t].scores
                                /\ PointDistances(datasets, key, t) # {}
                                /\ Least(PointDistances(datasets, key, t)) >= d)
                               => segments[t].scores[key].n * score.d
                                      <= score.n * segments[t].scores[key].d

\* two segments were scored for a point-proximity feature: one lies nearer
\* than the radius to a point and scores between 0 and 10, the other lies
\* at least the radius away from every point and scores 0
C10_Witness ==
    \E key \in DOMAIN PointDataset : \E s, t \in DOMAIN segments :
        /\ key \in DOMAIN segments[s].scores
        /\ key \in DOMAIN segments[t].scores
        /\ PointDistances(datasets, key, s) # {}
        /\ Least(PointDistances(datasets, key, s)) \in 1..(config.features[key].radius - 1)
        /\ segments[s].scores[key] \notin { Zero, Ten }
        /\ PointDistances(datasets, key, t) # {}
        /\ Least(PointDistances(datasets, key, t)) >= config.features[key].radius
        /\ segments[t].scores[key] = Zero

\* ------------------------------------------------------------ C11 .. C20
\* the sum of the values of a function of numbers, whatever the order
RECURSIVE SumOfValues(_)
SumOfValues(f) ==
    IF DOMAIN f = {} THEN Zero
    ELSE LET k == CHOOSE key \in DOMAIN f : TRUE
         IN  RAdd(f[k], SumOfValues([ key \in DOMAIN f \ {k} |-> f[key] ]))

\* the weight sum and the weighted score sum of a result, over the features
\* present in its score map
WeightOf(cfg, r) ==
    SumOfValues([ key \in DOMAIN r.featureScores |-> Rat(cfg.features[key].weight, 1) ])
WeightedScoreOf(cfg, r) ==
    SumOfValues([ key \in DOMAIN r.featureScores |->
                    RMul(r.featureScores[key], Rat(cfg.features[key].weight, 1)) ])

\* finalScore is 10 * (sum of score * weight) / (sum of weight), and 0
\* when the weight sum is 0
FinalScoreIsWeightedMean ==
    \A j \in DOMAIN results :
        LET weight == WeightOf(config, results[j])
        IN  IF weight = Zero THEN results[j].score = Zero
            ELSE RMul(results[j].score, weight) = RMul(Ten, WeightedScoreOf(config, results[j]))

\* C11: for every eligible segment finalScore is 10 times the weighted mean
\* of the scores present in its score map, 0 when the weight sum is 0, and
\* always a number from 0 to 100.
C11_FinalScoreInRange ==
    /\ FinalScoreIsWeightedMean
    /\ \A j \in DOMAIN results :
          RLe(Zero, results[j].score) /\ RLe(results[j].score, Rat(100, 1))

\* a segment in a block group of ADI -5, scored for ADI alone in direction
\* 'higher', has the score -0.5 and the finalScore -5
C11_Witness ==
    /\ pc = "done"
    /\ FinalScoreIsWeightedMean
    /\ \E j \in DOMAIN results :
          /\ DOMAIN results[j].featureScores = { "adi" }
          /\ results[j].featureScores["adi"] = [n |-> -1, d |-> 2]
          /\ results[j].score = [n |-> -5, d |-> 1]

\* the constants the feature weights are multiplied by
MaxScale == 3
Scales == 2..MaxScale

\* the configuration with every feature weight multiplied by c
ScaleWeights(cfg, c) ==
    [ cfg EXCEPT !.features =
        [ key \in FeatureKeys |->
            [ cfg.features[key] EXCEPT !.weight = c * cfg.features[key].weight ] ] ]

\* C12: multiplying every feature weight by the same positive constant,
\* with datasets, radii, directions and gates unchanged, leaves every
\* finalScore, the order of the results and every rank unchanged.
C12_ScalingWeightsChangesNothing ==
    pc = "done" =>
        \A c \in Scales :
            RunResults(ScaleWeights(config, c), datasets) = results

\* a run with unequal positive weights has ranked two segments of different
\* non-zero finalScore
C12_Witness ==
    /\ pc = "done"
    /\ \E k1, k2 \in FeatureKeys :
          /\ 0 < config.features[k1].weight
          /\ config.features[k1].weight < config.features[k2].weight
    /\ Len(results) >= 2
    /\ results[1].score # results[2].score
    /\ results[2].score # Zero
    /\ \A c \in Scales : ScaleWeights(config, c) # config

\* result a comes before result b in the ranking order: higher finalScore,
\* or equal finalScore and created earlier
Outranks(a, b) ==
    \/ RLt(b.score, a.score)
    \/ (a.score = b.score /\ a.id < b.id)

\* C13: the result list is ordered by non-increasing finalScore, the result
\* at index i has rank i + 1 (the ranks are exactly 1..N), results of equal
\* finalScore keep the order in which their segments were created, and one
\* result has the lower rank exactly when it has the higher finalScore or,
\* at equal finalScore, the earlier segment.
C13_RankedByScore ==
    /\ \A i \in DOMAIN results : results[i].rank = i
    /\ { results[i].rank : i \in DOMAIN results } = 1..Len(results)
    /\ \A i, j \in DOMAIN results :
          /\ i < j => RLe(results[j].score, results[i].score)
          /\ (i < j /\ results[i].score = results[j].score) => results[i].id < results[j].id
          /\ i # j => (results[i].rank < results[j].rank <=> Outranks(results[i], results[j]))

\* the segment created second has the higher finalScore and rank 1
C13_Witness ==
    /\ pc = "done"
    /\ Len(results) = 2
    /\ results[1].id > results[2].id
    /\ RLt(results[2].score, results[1].score)
    /\ results[1].rank = 1 /\ results[2].rank = 2

\* two segments of equal finalScore were ranked
EqualScoresRanked ==
    /\ pc = "done"
    /\ Len(results) = 2
    /\ results[1].score = results[2].score
    /\ results[1].score # Zero

\* the complete events posted so far
CompleteEvents == { e \in DOMAIN events : events[e].type = "complete" }

\* C14: the segments list of the complete event contains exactly the
\* segments that are eligible after the gate pipeline, each once and no
\* ineligible one; totalSegments is their number; only eligible segments
\* carry a finalScore and a rank.
C14_CompleteListsEligible ==
    /\ \A e \in CompleteEvents :
          LET listed == events[e].segments
              eligible == EligibleSet(applyRequirements(generateSegments(config, datasets), config, datasets))
          IN  /\ { listed[j].id : j \in DOMAIN listed } = { s - 1 : s \in eligible }
              /\ Len(listed) = Cardinality(eligible)
              /\ events[e].totalSegments = Cardinality(eligible)
              /\ eligible = EligibleSet(segments)
    /\ \A j \in DOMAIN results :
          \E s \in EligibleSet(segments) : segments[s].id = results[j].id

\* a run whose gates excluded one segment and kept another has posted its
\* complete event
C14_Witness ==
    /\ pc = "done"
    /\ CompleteEvents # {}
    /\ EligibleSet(segments) # {}
    /\ \E s \in DOMAIN segments : ~segments[s].eligible
    /\ \A e \in CompleteEvents : events[e].totalSegments = Cardinality(EligibleSet(segments))

\* a 'start' message has arrived whose bundle has no 'freeways' entry
NoFreeways == pc # "idle" /\ ~Has(datasets, "freeways")

\* no segment was generated, no gate applied, no score computed, no result
\* list built, no complete event posted
NothingComputed ==
    /\ pc \in { "generate", "failed" }
    /\ segments = << >>
    /\ processed = 0
    /\ results = << >>
    /\ CompleteEvents = {}
    /\ pc = "failed" => events = << Progress(0), Error >>

\* C15: when the bundle has no 'freeways' entry the run ends with an error
\* event and never with a complete event; no segment is generated, no gate
\* is applied, no score is computed and no partial result list is posted.
C15_NoFreewaysIsAnError ==
    /\ [](NoFreeways => NothingComputed)
    /\ (NoFreeways ~> (pc = "failed" /\ events[Len(events)].type = "error"))

\* a run with every gate enabled, positive weights and the rich bundle
\* without its 'freeways' entry ended with the error event
C15_Witness ==
    /\ pc = "failed"
    /\ ~Has(datasets, "freeways")
    /\ Has(datasets, "bridges")
    /\ \A gate \in GateNames : config.requirements[gate].enabled
    /\ \E key \in FeatureKeys : config.features[key].weight > 0
    /\ events = << Progress(0), Error >>

\* some feature of the bundle has a geometry on which computations throw
BrokenFeatures(ds) ==
    { << key, i >> \in (DatasetKeys \ { "freeways" }) \X (1..MaxFeatures) :
        /\ Has(ds, key)
        /\ i <= Len(Features(ds, key))
        /\ Features(ds, key)[i].geometry # "valid" }

\* the events of type error
ErrorEvents == { e \in DOMAIN events : events[e].type = "error" }

\* C16: a geometry computation that fails on a single dataset feature, in
\* any gate or scorer (the block-group lookup, the station gate and the
\* centroid fallback included), never aborts the run: a run whose bundle
\* has the 'freeways' entry posts no error event.
C16_GeometryFailureNeverAborts ==
    Has(datasets, "freeways") => ErrorEvents = {}

\* a run that scores ADI met an invalid block group in the lookup and ended
\* with the error event
C16_Witness ==
    /\ pc = "failed"
    /\ Has(datasets, "freeways")
    /\ config.features["adi"].weight > 0
    /\ \E b \in BrokenFeatures(datasets) :
          /\ b[1] = "block_groups_with_census"
          /\ Features(datasets, b[1])[b[2]].geometry = "invalid"
    /\ events[Len(events)].type = "error"
    /\ CompleteEvents = {}

\* where the code catches, the run goes on: with degenerate features only,
\* or with invalid ones read by the neighborhood-centre, transit-density
\* and bike-network scorers only, no error event is posted
CaughtFailuresDoNotAbort ==
    (/\ Has(datasets, "freeways")
     /\ \A b \in BrokenFeatures(datasets) :
           \/ Features(datasets, b[1])[b[2]].geometry = "degenerate"
           \/ /\ b[1] \in { "neighborhoods", "cta_bus_stops", "pace_bus_stops", "bike_routes" }
              /\ \A gate \in GateNames : ~config.requirements[gate].enabled)
    => ErrorEvents = {}

\* a run over a bundle with a degenerate feature has completed
DegenerateCompleted ==
    /\ pc = "done"
    /\ \E b \in BrokenFeatures(datasets) :
          Features(datasets, b[1])[b[2]].geometry = "degenerate"
    /\ \E j \in DOMAIN results : results[j].score # Zero

\* the segments of a whole run on n segments once they are gated and scored
RunSegments(cfg, ds) ==
    LET gated == applyRequirements(generateSegments(cfg, ds), cfg, ds)
    IN  [ s \in DOMAIN gated |->
            IF gated[s].eligible
            THEN [ gated[s] EXCEPT !.scores = SegmentScores(s, cfg, ds) ]
            ELSE gated[s] ]

\* the scoring loop is over
Scored ==
    \/ pc \in { "complete", "done" }
    \/ pc = "score" /\ processed = Len(EligibleSegments(segments))

RECURSIVE GatesRun(_, _, _, _)
GatesRun(order, segs, cfg, ds) ==
    IF order = << >> THEN [ thrown |-> FALSE, segments |-> segs ]
    ELSE IF GateThrows(Head(order), segs, cfg, ds) THEN [ thrown |-> TRUE, segments |-> segs ]
    ELSE GatesRun(Tail(order), ApplyGate(Head(order), segs, cfg, ds), cfg, ds)

\* the messages a new engine posts when it runs on n segments
RunEvents(cfg, ds) ==
    IF ~Has(ds, "freeways") THEN << Progress(0), Error >>
    ELSE LET gates == GatesRun(GateOrder, generateSegments(cfg, ds), cfg, ds)
             eligible == EligibleSegments(gates.segments)
             throwing == { j \in 1..Len(eligible) : ScoringThrows(eligible[j], cfg, ds) }
             scored == IF throwing = {} THEN Len(eligible) ELSE Least(throwing) - 1
             progress == [ j \in 1..scored |->
                             SegmentProgress(RoundPercent(j, Len(eligible)),
                                             gates.segments[eligible[j]].id) ]
         IN  IF gates.thrown THEN << Progress(0), Progress(0), Error >>
             ELSE << Progress(0), Progress(0), Progress(0) >> \o progress \o
                  (IF throwing # {} THEN << Error >>
                   ELSE << Progress(100), Progress(100), Complete(RunResults(cfg, ds)) >>)

\* the messages posted since the 'start' message of the current run
CurrentEvents == SubSeq(events, started + 1, Len(events))

\* C18: when one engine handles several 'start' messages one after another,
\* the events of each run are those a new engine posts for that run's
\* configuration and datasets: what an earlier run left behind, also one
\* that ended in error, never shows in a later run's events.
C18_RunsAreIndependent ==
    /\ pc # "idle" =>
          /\ Len(CurrentEvents) <= Len(RunEvents(config, datasets))
          /\ CurrentEvents = SubSeq(RunEvents(config, datasets), 1, Len(CurrentEvents))
    /\ pc \in { "done", "failed" } => CurrentEvents = RunEvents(config, datasets)

\* the engine has completed a second run, on two segments, after a first
\* run that completed with another result list
C18_Witness ==
    /\ pc = "done"
    /\ started > 0
    /\ events[started].type = "complete"
    /\ events[started].segments # << >>
    /\ Len(results) = 2
    /\ results # events[started].segments
    /\ events[Len(events)] = Complete(results)

\* the engine has completed a run after a run that ended in error and left
\* the segments of the run before
CompletedAfterAnError ==
    /\ pc = "done"
    /\ started > 0
    /\ events[started].type = "error"
    /\ results # << >>

\* the segments have been generated from the freeway dataset
Generated == Has(datasets, "freeways") /\ pc \notin { "idle", "generate" }

\* the segments generated from the route of a freeway feature
SegmentsOf(feature) ==
    { s \in DOMAIN segments : segments[s].freeway = feature.corridor_id }

\* the length in ft of a route up to its vertex k, and its total length T
RECURSIVE TravelledFt(_, _)
TravelledFt(coordinates, k) ==
    IF k <= 1 THEN 0
    ELSE TravelledFt(coordinates, k - 1) + 100 * Abs(coordinates[k] - coordinates[k - 1])
TotalFt(coordinates) == TravelledFt(coordinates, Len(coordinates))

\* the point (in ft along the great circle) at the distance d along a route
PointFt(coordinates, d) ==
    LET k == CHOOSE leg \in 1..(Len(coordinates) - 1) :
                 /\ RLe(Rat(TravelledFt(coordinates, leg), 1), d)
                 /\ RLe(d, Rat(TravelledFt(coordinates, leg + 1), 1))
        run == RSub(d, Rat(TravelledFt(coordinates, k), 1))
    IN  IF coordinates[k] <= coordinates[k + 1]
        THEN RAdd(Rat(100 * coordinates[k], 1), run)
        ELSE RSub(Rat(100 * coordinates[k], 1), run)

\* the number of sub-intervals of a route of T ft under the target of L ft,
\* and the sub-intervals [i * T / n, (i + 1) * T / n], in ft
CutCount(T, L) == IF T <= L THEN 1 ELSE T \div L
Cuts(T, L) ==
    [ i \in 1..CutCount(T, L) |->
        << Rat((i - 1) * T, CutCount(T, L)), Rat(i * T, CutCount(T, L)) >> ]

\* the sub-intervals whose two end points are different points of the route
ProperCuts(coordinates, L) ==
    { i \in 1..CutCount(TotalFt(coordinates), L) :
        PointFt(coordinates, Cuts(TotalFt(coordinates), L)[i][1])
            # PointFt(coordinates, Cuts(TotalFt(coordinates), L)[i][2]) }

\* the route of a feature is cut at the sub-intervals [i * T / n,
\* (i + 1) * T / n], which are equal in length, consecutive and cover the
\* route from 0 to T
CutAsClaimed(feature, L) ==
    LET T == TotalFt(feature.coordinates)
        totalKm == RMul(Rat(T, 1), FT_TO_KM)
        cut == Intervals(Length(Route(feature)), RMul(Rat(L, 1), FT_TO_KM))
    IN  /\ cut = [ i \in 1..CutCount(T, L) |->
                     << RMul(Cuts(T, L)[i][1], FT_TO_KM), RMul(Cuts(T, L)[i][2], FT_TO_KM) >> ]
        /\ cut[1][1] = Zero
        /\ cut[Len(cut)][2] = totalKm
        /\ \A i \in 1..(Len(cut) - 1) : cut[i][2] = cut[i + 1][1]
        /\ \A i \in DOMAIN cut :
              RSub(cut[i][2], cut[i][1]) = RDiv(totalKm, Rat(CutCount(T, L), 1))

ShortRouteYieldsOne ==
    /\ pc = "done"
    /\ config.segmentLength = 300
    /\ Features(datasets, "freeways") = << LineString("I-90", << 0, 2 >>) >>
    /\ Len(segments) = 1

\* a run on one route of 200 ft that ends where it starts has ended
\* without a segment
ClosedRouteYieldsNone ==
    /\ pc = "done"
    /\ config.segmentLength = 300
    /\ Features(datasets, "freeways") = << LineString("I-90", << 0, 1, 0 >>) >>
    /\ segments = << >>

\* the sum of the length_ft values of a set of segments
RECURSIVE ReportedFt(_)
ReportedFt(S) ==
    IF S = {} THEN Zero
    ELSE LET s == CHOOSE t \in S : TRUE
         IN  RAdd(segments[s].length_ft, ReportedFt(S \ { s }))

\* two lengths differ by no more than a millionth of the second: the
\* constants 0.0003048 and 3280.84 are inverse to each other within
\* 3.2e-8
WithinTolerance(a, b) == RLe(Distance(a, b), RMul(b, Rat(1, 1000000)))

\* the sum in ft of the straight-line distances between the two end points
\* of the sub-intervals in C of a route
RECURSIVE StraightLineFt(_, _, _)
StraightLineFt(coordinates, L, C) ==
    IF C = {} THEN Zero
    ELSE LET i == CHOOSE c \in C : TRUE
             cut == Cuts(TotalFt(coordinates), L)[i]
         IN  RAdd(Distance(PointFt(coordinates, cut[1]), PointFt(coordinates, cut[2])),
                  StraightLineFt(coordinates, L, C \ { i }))

\* C20 as stated: for every route the length_ft values of the segments
\* generated from it sum to the route's total length within tolerance, and
\* a route no longer than the target yields one segment whose length_ft is
\* the route's total length, whatever the shape of the route.
C20_LengthsSumToRoute ==
    Generated =>
        \A i \in DOMAIN Features(datasets, "freeways") :
            LET feature == Features(datasets, "freeways")[i]
                T == TotalFt(feature.coordinates)
            IN  T > 0 =>
                   /\ WithinTolerance(ReportedFt(SegmentsOf(feature)), Rat(T, 1))
                   /\ T <= config.segmentLength =>
                         /\ Cardinality(SegmentsOf(feature)) = 1
                         /\ \A s \in SegmentsOf(feature) :
                               WithinTolerance(segments[s].length_ft, Rat(T, 1))

\* a run has generated one segment from a route of 300 ft that is no
\* longer than the target, runs 200 ft out and 100 ft back, and the
\* segment's length_ft is less than 101 ft
C20_Witness ==
    /\ pc = "done"
    /\ config.segmentLength = 300
    /\ Features(datasets, "freeways") = << LineString("I-90", << 0, 2, 1 >>) >>
    /\ Len(segments) = 1
    /\ RLt(segments[1].length_ft, Rat(101, 1))
    /\ Len(results) = 1

\* what length_ft holds: the length_ft values of the segments of a route
\* sum, within tolerance, to the straight-line distances between the end
\* points of its sub-intervals; to the route's total length when the route
\* is straight
LengthsSumToStraightLines ==
    Generated =>
        \A i \in DOMAIN Features(datasets, "freeways") :
            LET feature == Features(datasets, "freeways")[i]
                T == TotalFt(feature.coordinates)
            IN  T > 0 =>
                   /\ WithinTolerance(
                          ReportedFt(SegmentsOf(feature)),
                          StraightLineFt(feature.coordinates, config.segmentLength,
                                         1..CutCount(T, config.segmentLength)))
                   /\ Len(feature.coordinates) = 2 =>
                          WithinTolerance(ReportedFt(SegmentsOf(feature)), Rat(T, 1))

\* ------------------------------------------------------------ C21 .. C30
\* C21: initiateAnalysis rejects an invalid configuration: a worker is
\* created only in a step that starts with isValidForAnalysis true, and the
\* step that answers an invalid configuration (empty freeway selection, a
\* length outside 100..1500 or NaN) with its alert creates and starts no
\* worker and leaves currentView, isAnalyzing and analysisProgress as they
\* are.
C21_InvalidConfigurationRejected ==
    [][ /\ Len(workers') > Len(workers) => isValidForAnalysis
        /\ (~isValidForAnalysis /\ alerts' # alerts /\ LiveWorkers' = LiveWorkers) =>
              UNCHANGED << currentView, isAnalyzing, analysisProgress, workers >> ]_vars

\* the initiate-analysis button has been clicked with NaN as the segment
\* length and with no freeway selected: an alert was shown, and no worker
\* exists
C21_Witness ==
    /\ alerts > 0
    /\ workers = << >>
    /\ segmentLength = NaN
    /\ selectedFreeways = {}
    /\ currentView = "preferences"
    /\ ~isAnalyzing

\* the events of the current run: those posted since its 'start' message
\* arrived, without the answers to messages of another type
EventsOfRun ==
    SelectSeq(SubSeq(events, started + 1, Len(events)), LAMBDA e : e # UnknownMessageType)
TerminalEvents(evs) == { e \in DOMAIN evs : evs[e].type \in { "complete", "error" } }
Running == pc \notin { "idle", "done", "failed" }

\* every run posts exactly one terminal event, as its last event: none
\* while it is under way, one once it has ended
OneTerminalEvent ==
    /\ Running => TerminalEvents(EventsOfRun) = {}
    /\ pc \in { "done", "failed" } =>
          /\ TerminalEvents(EventsOfRun) = { Len(EventsOfRun) }
          /\ EventsOfRun[Len(EventsOfRun)].type = IF pc = "done" THEN "complete" ELSE "error"
          /\ EventsOfRun[1] = Progress(0)

\* a message of another type than 'start' is answered by the error event
\* and starts no run: the step changes nothing but the events
UnknownStartsNoRun ==
    [][ (events' = Append(events, UnknownMessageType)) =>
            /\ ~Running /\ ~Running'
            /\ UNCHANGED << pc, started, config, datasets, segments, processed, results >> ]_vars

\* C22: every 'start' message handled by the worker leads to the end of
\* its run, at which the run has posted exactly one terminal event,
\* complete or error, and no event after it; a message of another type is
\* answered by an error event and starts no run.
C22_OneTerminalEventPerStart ==
    /\ [](Running => <>(pc \in { "done", "failed" }))
    /\ []OneTerminalEvent
    /\ UnknownStartsNoRun

\* the engine has answered a message of another type, then completed a
\* run, then ended a second run with the error event
C22_Witness ==
    /\ pc = "failed"
    /\ started > 1
    /\ events[1] = UnknownMessageType
    /\ events[started].type = "complete"
    /\ events[Len(events)] = Error

\* C23: the stages of a run follow each other, each complete before the
\* next begins: a step that changes an eligible flag finds all segments
\* generated and no score written; a step that writes a score finds the
\* flags as every enabled gate leaves them; the step that computes
\* finalScore and rank finds every eligible segment scored.
C23_StagesInOrder ==
    [][ /\ (\E s \in DOMAIN segments \cap DOMAIN segments' :
               segments'[s].eligible # segments[s].eligible) =>
              /\ Len(segments) = Len(generateSegments(config, datasets))
              /\ \A s \in DOMAIN segments : segments[s].scores = << >>
              /\ results = << >>
        /\ (\E s \in DOMAIN segments \cap DOMAIN segments' :
               segments'[s].scores # segments[s].scores) =>
              /\ EligibleSet(segments)
                    = EligibleSet(applyRequirements(generateSegments(config, datasets),
                                                    config, datasets))
              /\ EligibleSet(segments') = EligibleSet(segments)
              /\ results = << >>
        /\ results' # results =>
              /\ processed = Cardinality(EligibleSet(segments))
              /\ \A s \in EligibleSet(segments) :
                    segments[s].scores = SegmentScores(s, config, datasets)
              /\ segments' = segments ]_vars

\* a run has ranked its segments: a gate excluded one segment, another one
\* was scored on some feature and is in the result list
C23_Witness ==
    /\ pc = "complete"
    /\ EnabledGates(config) # {}
    /\ \E s \in DOMAIN segments : ~segments[s].eligible
    /\ \E s \in EligibleSet(segments) : segments[s].scores # << >>
    /\ Len(results) = Cardinality(EligibleSet(segments))

\* ------------------------------------------------------------------- C24
\* the raw value of a density scorer for a segment: the number of bus stops
\* of both datasets within the radius, and the mileage (in tenths of a mile)
\* of the bike routes within the radius
StopsWithin(ds, key, s, radius) ==
    IF ~Has(ds, key) THEN {}
    ELSE { i \in 1..Len(Features(ds, key)) :
             /\ Features(ds, key)[i].geometry = "valid"
             /\ Features(ds, key)[i].cdist[s] <= radius }

RawStops(s) ==
    Cardinality(StopsWithin(datasets, "cta_bus_stops", s,
                            config.features["transitDensity"].radius))
    + Cardinality(StopsWithin(datasets, "pace_bus_stops", s,
                              config.features["transitDensity"].radius))

RoutesWithin(s) ==
    StopsWithin(datasets, "bike_routes", s, config.features["bikeNetwork"].radius)

\* the mileage of a bike route is a number: mi_ctrline parses, or is absent
\* or 0 and the computed length is used
NumericMileage(f) == f.mi_ctrline.k # "str"
MileageTenths(f) == IF f.mi_ctrline \in { None, Num(0) } THEN f.len ELSE f.mi_ctrline.v

RECURSIVE TenthsOver(_, _)
TenthsOver(feats, I) ==
    IF I = {} THEN 0
    ELSE LET i == CHOOSE j \in I : TRUE
         IN  MileageTenths(feats[i]) + TenthsOver(feats, I \ { i })

RawTenths(s) == TenthsOver(Features(datasets, "bike_routes"), RoutesWithin(s))

\* the score the claim states for a raw value raw / unit, the maximum max
\* and the epsilon eps / unit
DensityScore(raw, unit, max, eps, direction) ==
    LET floored == IF raw < eps THEN eps ELSE raw
        capped(v) == IF v >= max * unit THEN max * unit ELSE v
    IN  IF direction = "lower"
        THEN Rat(10 * (max * unit - capped(floored)), max * unit)
        ELSE Rat(10 * capped(raw), max * unit)

DensityAsClaimed(score, raw, unit, max, eps, direction) ==
    /\ direction \in { "higher", "lower" } =>
          score = DensityScore(raw, unit, max, eps, direction)
    /\ direction = "lower" =>
          /\ score.n < 10 * score.d
          /\ raw >= max * unit => score = Zero

C24_BikeWitness ==
    \E s \in DOMAIN segments :
        /\ "bikeNetwork" \in DOMAIN segments[s].scores
        /\ RawTenths(s) > 10 * maxMiles
        /\ config.features["bikeNetwork"].direction = "lower"
        /\ segments[s].scores["bikeNetwork"] = Zero

\* ------------------------------------------------------------------- C25
\* the block groups that contain the centre of a segment
ContainingBlockGroups(s) ==
    IF ~Has(datasets, "block_groups_with_census") THEN {}
    ELSE { i \in 1..Len(Features(datasets, "block_groups_with_census")) :
             Features(datasets, "block_groups_with_census")[i].inside[s] }

\* the attribute a block-group scorer reads from the first containing block
\* group, its maximum and its default direction
BlockAttribute(key, s) ==
    LET bg == Features(datasets, "block_groups_with_census")[Least(ContainingBlockGroups(s))]
    IN  IF key = "adi" THEN bg.adi ELSE bg.crash_count
BlockMaximum(key) == IF key = "adi" THEN maxADI ELSE maxCrashes
BlockDirection(key) ==
    DirectionOr(config.features[key].direction, IF key = "adi" THEN "higher" ELSE "lower")

\* the directional mapping of v without a floor: min(1, v/max) * 10 for
\* 'higher', 10 - min(1, v/max) * 10 for 'lower'
DirectionalScore(v, max, direction) ==
    LET capped == IF v >= max THEN max ELSE v
    IN  IF direction = "lower" THEN Rat(10 * (max - capped), max)
        ELSE Rat(10 * capped, max)

BlockScoreAsClaimed(key, s) ==
    LET score == segments[s].scores[key]
    IN  IF ContainingBlockGroups(s) = {} THEN score = Zero
        ELSE BlockAttribute(key, s).k = "num" =>
               /\ BlockDirection(key) \in { "higher", "lower" } =>
                     score = DirectionalScore(BlockAttribute(key, s).v, BlockMaximum(key),
                                              BlockDirection(key))
               /\ BlockDirection(key) = "lower" =>
                     /\ BlockAttribute(key, s).v = 0 => score = Ten
                     /\ \A t \in DOMAIN segments :
                           (/\ key \in DOMAIN segments[t].scores
                            /\ ContainingBlockGroups(t) # {}
                            /\ BlockAttribute(key, t).k = "num"
                            /\ BlockAttribute(key, t).v >= BlockAttribute(key, s).v)
                           => RLe(segments[t].scores[key], score)

\* C25: an ADI score (maximum 100) and a crash-count score (maximum 2200) is
\* 0 when no block group contains the segment centre; otherwise, for every
\* numeric value v of the attribute of the first containing block group, it
\* is min(1, v/max) * 10 under 'higher' and 10 - min(1, v/max) * 10 under
\* 'lower', so that under 'lower' it never rises with v and is 10 at v = 0.
C25_BlockGroupScores ==
    \A s \in DOMAIN segments :
        \A key \in (DOMAIN segments[s].scores) \cap { "adi", "crashes" } :
            BlockScoreAsClaimed(key, s)

\* a segment whose block group has crash_count 0 was scored for crashes in
\* direction 'lower', and its score is 0
C25_Witness ==
    /\ BlockDirection("crashes") = "lower"
    /\ \E s \in DOMAIN segments :
          /\ "crashes" \in DOMAIN segments[s].scores
          /\ ContainingBlockGroups(s) # {}
          /\ BlockAttribute("crashes", s) = Num(0)
          /\ segments[s].scores["crashes"] = Zero

\* the scores are as claimed for every segment whose attribute is not 0
NonZeroAttributesAsClaimed ==
    \A s \in DOMAIN segments :
        \A key \in (DOMAIN segments[s].scores) \cap { "adi", "crashes" } :
            (ContainingBlockGroups(s) # {} => BlockAttribute(key, s) # Num(0)) =>
                LET score == segments[s].scores[key]
                IN  IF ContainingBlockGroups(s) = {} THEN score = Zero
                    ELSE BlockAttribute(key, s).k = "num" =>
                            score = DirectionalScore(BlockAttribute(key, s).v,
                                                     BlockMaximum(key), BlockDirection(key))

\* an attribute of 0 scores 0 in either direction
ZeroAttributeScoresZero ==
    \A s \in DOMAIN segments :
        \A key \in (DOMAIN segments[s].scores) \cap { "adi", "crashes" } :
            (ContainingBlockGroups(s) # {} /\ BlockAttribute(key, s) = Num(0)) =>
                segments[s].scores[key] = Zero

\* ------------------------------------------------------------------- C26
\* the corridor groups of the run, once generateSegments has run
Generating == pc \in { "idle", "generate", "failed" }
CorridorGroups ==
    GroupLoop(Features(datasets, "freeways"), 1, config.selectedFreeways, << >>)

\* the places << r, k >> at which fragment f is listed in the routes
PlacesOf(routes, f) ==
    { rk \in UNION { { << r, k >> : k \in DOMAIN routes[r].fragments } : r \in DOMAIN routes } :
        routes[rk[1]].fragments[rk[2]] = f }

\* the number of legs of a line between the positions a and b, in either
\* direction
Legs(coordinates, a, b) ==
    Cardinality({ i \in 1..(Len(coordinates) - 1) :
                    { coordinates[i], coordinates[i + 1] } = { a, b } })

RECURSIVE LegsOfFragments(_, _, _, _, _)
LegsOfFragments(features, fragments, k, a, b) ==
    IF k > Len(fragments) THEN 0
    ELSE Legs(features[fragments[k]].coordinates, a, b)
         + LegsOfFragments(features, fragments, k + 1, a, b)

\* a route is made of the legs of the fragments listed for it
MadeOfItsFragments(features, route) ==
    \A a, b \in 0..MaxPosition :
        Legs(route.coordinates, a, b) = LegsOfFragments(features, route.fragments, 1, a, b)

EndPoints(feature) == { feature.coordinates[1], Last(feature.coordinates) }

\* no end point of fragment f is an end point of another fragment
Isolated(features, f) ==
    \A g \in (DOMAIN features) \ { f } :
        EndPoints(features[f]) \cap EndPoints(features[g]) = {}

StitchedAsClaimed(features) ==
    LET routes == stitchLineStrings(features)
    IN  /\ \A f \in DOMAIN features : Cardinality(PlacesOf(routes, f)) = 1
        /\ \A r \in DOMAIN routes :
              /\ routes[r].fragments # << >>
              /\ \A k \in DOMAIN routes[r].fragments : routes[r].fragments[k] \in DOMAIN features
              /\ MadeOfItsFragments(features, routes[r])
        /\ Len(routes) <= Len(features)
        /\ \A f \in DOMAIN features :
              Isolated(features, f) => \E r \in DOMAIN routes : routes[r].fragments = << f >>

\* C26: stitchLineStrings places every fragment of a corridor group into
\* exactly one route: none is dropped, none is used twice, there are at most
\* as many routes as fragments, and a fragment none of whose end points is
\* within the tolerance of an end point of another fragment is a route of
\* its own.
C26_EveryFragmentInOneRoute ==
    ~Generating =>
        \A g \in DOMAIN CorridorGroups : StitchedAsClaimed(CorridorGroups[g].features)

\* a finished run over three fragments of one corridor: two of them were
\* joined into one route and the third, which touches neither, is a route
\* of its own; each route gave one segment
C26_Witness ==
    /\ pc = "done"
    /\ Len(CorridorGroups) = 1
    /\ LET features == CorridorGroups[1].features
           routes == stitchLineStrings(features)
       IN  /\ Len(features) = 3
           /\ Len(routes) = 2
           /\ \E f \in DOMAIN features : Isolated(features, f)
           /\ \E r \in DOMAIN routes : Len(routes[r].fragments) = 2
           /\ Len(segments) = 2

\* ------------------------------------------------------------------- C27
\* the corridor label of a feature: corridor_id if present, otherwise the
\* label inferred from a word of the street name, otherwise 'Unknown'
FreewayOfWord ==
    [ KENNEDY |-> "I-90/94", EISENHOWER |-> "I-290", STEVENSON |-> "I-55" ]
CorridorLabel(f) ==
    IF f.corridor_id # "" THEN f.corridor_id
    ELSE IF \E i \in DOMAIN f.STREET_NAM : f.STREET_NAM[i] \in DOMAIN FreewayOfWord
    THEN FreewayOfWord[f.STREET_NAM[CHOOSE i \in DOMAIN f.STREET_NAM :
                                       f.STREET_NAM[i] \in DOMAIN FreewayOfWord]]
    ELSE "Unknown"

\* a line fragment of a selected corridor, no corridor being selected when
\* the selection is empty
SelectedFragment(f) ==
    /\ f.gtype = "LineString"
    /\ config.selectedFreeways = {} \/ CorridorLabel(f) \in config.selectedFreeways

\* of the primary freeway road class; of that class or of no recorded class
PrimaryClass(f) == f.CLASS = Num(1)
PrimaryOrNoClass(f) == f.CLASS \in { None, Num(0), Num(1) }

\* the freeway dataset reduced to the given features, each labelled with its
\* corridor and classed as primary, with no corridor selected
Only(features) ==
    [ config |-> [ config EXCEPT !.selectedFreeways = {} ],
      datasets |-> [ datasets EXCEPT !["freeways"] =
                       Dataset([ i \in DOMAIN features |->
                                   [ features[i] EXCEPT !.corridor_id = CorridorLabel(features[i]),
                                                        !.CLASS = Num(1) ] ]) ] ]

\* the corridor and the length of the segments, in order
Outline(segs) == [ i \in DOMAIN segs |-> << segs[i].freeway, segs[i].length_ft >> ]
OutlineOf(world) == Outline(generateSegments(world.config, world.datasets))

FragmentWithoutClassContributes ==
    /\ pc = "done"
    /\ config.selectedFreeways = { "I-290" }
    /\ Features(datasets, "freeways")
         = << [ LineString("", << 0, 3 >>) EXCEPT
                  !.CLASS = None, !.STREET_NAM = << "EISENHOWER", "EXPY" >> ],
              LineString("I-290", << 3, 6 >>) >>
    /\ Len(segments) = 2

\* ------------------------------------------------------------------- C28
\* the target length of the run in km, and the stitched routes of group g
TargetLengthKm == RMul(Rat(config.segmentLength, 1), FT_TO_KM)
RoutesOfGroup(g) == stitchLineStrings(CorridorGroups[g].features)

\* the lengths of the sub-intervals a route of length totalKm is cut into
IntervalLengths(totalKm) ==
    { RSub(interval[2], interval[1]) :
        interval \in { Intervals(totalKm, TargetLengthKm)[i] :
                         i \in DOMAIN Intervals(totalKm, TargetLengthKm) } }

\* C28: for every route longer than the target length L, the length
\* T / floor(T / L) of each of its sub-intervals is at least L and less than
\* 2 * L, so that no segment of such a route covers less than the target
\* length of route.
C28_IntervalAtLeastTarget ==
    ~Generating =>
        \A g \in DOMAIN CorridorGroups : \A r \in DOMAIN RoutesOfGroup(g) :
            LET totalKm == Length(Route(RoutesOfGroup(g)[r]))
            IN  RLt(TargetLengthKm, totalKm) =>
                  \A d \in IntervalLengths(totalKm) :
                      /\ RLe(TargetLengthKm, d)
                      /\ RLt(d, RMul(Rat(2, 1), TargetLengthKm))

\* a finished run over a route of 500 ft under the target length 300 ft: it
\* is cut into one sub-interval of 500 ft and gave one segment
C28_Witness ==
    /\ pc = "done"
    /\ config.segmentLength = 300
    /\ Features(datasets, "freeways") = << LineString("I-90", << 0, 5 >>) >>
    /\ IntervalLengths(Length(Route(RoutesOfGroup(1)[1]))) = { RMul(Rat(500, 1), FT_TO_KM) }
    /\ Len(segments) = 1

\* ------------------------------------------------------------------- C29
\* the progress events of the current run, and those of them that
\* scoreSegments posted for a segment
ProgressOfRun == SelectSeq(EventsOfRun, LAMBDA e : e.type = "progress")
SegmentProgressOfRun == SelectSeq(ProgressOfRun, LAMBDA e : e.currentSegment # -1)

\* the ids of the first n eligible segments, in the order of this.segments
RECURSIVE EligibleIds(_, _)
EligibleIds(S, n) ==
    IF n = 0 \/ S = {} THEN << >>
    ELSE LET s == CHOOSE t \in S : \A u \in S : t <= u
         IN  << s - 1 >> \o EligibleIds(S \ { s }, n - 1)

\* the gates have run and no scorer has failed
Scoring == pc \in { "score", "complete", "done" }

\* C29: within one run the percentages of successive progress events never
\* decrease and stay within 0..100; one progress event is posted for each
\* eligible segment, in scoring order; and the last progress event before
\* the complete event carries 100, also when no segment is eligible.
C29_ProgressNeverDecreases ==
    /\ \A e \in DOMAIN ProgressOfRun :
          /\ ProgressOfRun[e].percentage \in 0..100
          /\ \A f \in DOMAIN ProgressOfRun :
                e <= f => ProgressOfRun[e].percentage <= ProgressOfRun[f].percentage
    /\ Scoring =>
          /\ Len(SegmentProgressOfRun) = processed
          /\ [ e \in DOMAIN SegmentProgressOfRun |-> SegmentProgressOfRun[e].currentSegment ]
                = EligibleIds(EligibleSet(segments), processed)
    /\ pc \in { "complete", "done" } => processed = Cardinality(EligibleSet(segments))
    /\ ~Scoring => Len(SegmentProgressOfRun) <= Cardinality(EligibleSet(segments))
    /\ pc = "done" =>
          /\ EventsOfRun[Len(EventsOfRun)].type = "complete"
          /\ EventsOfRun[Len(EventsOfRun) - 1] = Progress(100)
          /\ ProgressOfRun = SubSeq(EventsOfRun, 1, Len(EventsOfRun) - 1)

\* a finished run in which two segments were scored: the progress events
\* carry 0, 0, 0, 50, 100, 100, 100, the fourth and the fifth for the two
\* segments in their order
C29_Witness ==
    /\ pc = "done"
    /\ Cardinality(EligibleSet(segments)) = 2
    /\ [ e \in DOMAIN ProgressOfRun |-> ProgressOfRun[e].percentage ]
         = << 0, 0, 0, 50, 100, 100, 100 >>
    /\ [ e \in DOMAIN SegmentProgressOfRun |-> SegmentProgressOfRun[e].currentSegment ]
         = << 0, 1 >>

\* a finished run in which the first of two segments was excluded: the one
\* progress event of scoreSegments is for the second segment and carries 100
ExcludedSegmentHasNoProgress ==
    /\ pc = "done"
    /\ EligibleSet(segments) = { 2 }
    /\ [ e \in DOMAIN ProgressOfRun |-> ProgressOfRun[e].percentage ]
         = << 0, 0, 0, 100, 100, 100 >>
    /\ [ e \in DOMAIN SegmentProgressOfRun |-> SegmentProgressOfRun[e].currentSegment ]
         = << 1 >>

\* a finished run in which no segment was eligible: the progress events
\* carry 0, 0, 0, 100, 100
NoneEligibleEndsWithHundred ==
    /\ pc = "done"
    /\ segments # << >>
    /\ EligibleSet(segments) = {}
    /\ EventsOfRun = << Progress(0), Progress(0), Progress(0), Progress(100), Progress(100),
                        Complete(<< >>) >>

\* ------------------------------------------------------------------- C30
\* C30: for every interleaving of tab clicks, initiate-analysis clicks and
\* worker messages, at most one analysis worker is live at any time: no
\* worker is created while a worker that has not delivered its complete or
\* error event is live, and isAnalyzing is true exactly while a worker is
\* live.
C30_AtMostOneLiveWorker ==
    /\ [](Cardinality(LiveWorkers) <= 1)
    /\ [](isAnalyzing <=> LiveWorkers # {})
    /\ [][ Len(workers') > Len(workers) => LiveWorkers = {} ]_vars

\* the progress view is shown and two workers are live
C30_Witness ==
    /\ currentView = "analysis"
    /\ isAnalyzing
    /\ Cardinality(LiveWorkers) = 2
    /\ alerts = 0

\* a worker is live, the results of another are shown and isAnalyzing is
\* false
ResultsShownWhileWorkerLive ==
    /\ currentView = "results"
    /\ ~isAnalyzing
    /\ LiveWorkers # {}

\* up to the creation of a second worker, isAnalyzing is true exactly while
\* the worker is live
FirstWorkerAsClaimed ==
    Len(workers) <= 1 => (isAnalyzing <=> LiveWorkers # {})

====
